---------------------------- MODULE Spec2Model ----------------------------
(***************************************************************************)
(* A model of egui-d3d11: the pipeline state guard (backup.rs), the frame  *)
(* orchestrator and the render-target tracker (app.rs), the input          *)
(* collector (input.rs) and the geometry conversion (mesh.rs).             *)
(*                                                                         *)
(* The Direct3D 11 device context is modelled by the record `pipe` of its  *)
(* bindings.  COM objects are names; a binding without an object is Null.  *)
(* A fixed-size array of the code is modelled by the prefix of its slots   *)
(* that was ever written; the other slots hold the zero of construction.   *)
(***************************************************************************)
EXTENDS Integers, Sequences, FiniteSets, TLC

\* ------------------------------------------------------------------ bounds
\* The most viewports / scissor rectangles the host binds.
MaxBound == 2
\* The most state-setting calls between a save and a restore (SpecBackup).
MaxSets == 2
\* The most save/restore cycles of one BackupState (SpecBackup).
MaxCycles == 2

Min(a, b) == IF a <= b THEN a ELSE b

\* A COM object: a kind and an identity.  Null is the absent object (None).
Obj(kind, id) == <<kind, id>>

Null == Obj("null", 0)

\* ------------------------------------------------- the device context
\* The bindings BackupState captures (InnerState's fields, by pipeline slot).
SnapshotFields ==
    { "scissor_rects", "viewports", "raster_state",
      "blend_state", "blend_factor", "blend_mask",
      "depth_stencil_state", "stencil_ref",
      "ps_resource", "ps_sampler",
      "vertex_shader", "vs_instances",
      "geometry_shader", "gs_instances",
      "pixel_shader", "ps_instances",
      "vs_constant_buffer", "primitive_topology",
      "index_buffer", "index_format", "index_offset",
      "vertex_buffer", "vb_stride", "vb_offset",
      "input_layout" }

\* Every binding of the context the model tracks: the captured ones and the
\* output-merger targets, which render_meshes writes and InnerState lacks.
PipeFields == SnapshotFields \cup { "render_target", "depth_view" }

HostRect(i) == <<0, 0, 100 * i, 100 * i>>
HostViewport(i) == <<0, 0, 100 * i, 100 * i, 0, 1>>

\* A state the host leaves the context in: `o` is the family of the host's
\* objects (Null: nothing bound), nvp / nsc the viewports and scissor
\* rectangles it has bound.
HostPipe(o, nvp, nsc) ==
    [ scissor_rects       |-> [i \in 1..nsc |-> HostRect(i)],
      viewports           |-> [i \in 1..nvp |-> HostViewport(i)],
      raster_state        |-> o,
      blend_state         |-> o,
      blend_factor        |-> IF o = Null THEN <<1, 1, 1, 1>> ELSE <<0, 1, 0, 1>>,
      blend_mask          |-> IF o = Null THEN "0xffffffff" ELSE "0x0000000f",
      depth_stencil_state |-> o,
      stencil_ref         |-> IF o = Null THEN 0 ELSE 1,
      ps_resource         |-> o,
      ps_sampler          |-> o,
      vertex_shader       |-> o,
      vs_instances        |-> <<>>,
      geometry_shader     |-> o,
      gs_instances        |-> <<>>,
      pixel_shader        |-> o,
      ps_instances        |-> IF o = Null THEN <<>> ELSE << Obj("host_class_instance", 0) >>,
      vs_constant_buffer  |-> o,
      primitive_topology  |-> IF o = Null THEN "UNDEFINED" ELSE "TRIANGLESTRIP",
      index_buffer        |-> o,
      index_format        |-> IF o = Null THEN "UNKNOWN" ELSE "R16_UINT",
      index_offset        |-> IF o = Null THEN 0 ELSE 4,
      vertex_buffer       |-> o,
      vb_stride           |-> IF o = Null THEN 0 ELSE 20,
      vb_offset           |-> IF o = Null THEN 0 ELSE 8,
      input_layout        |-> o,
      render_target       |-> IF o = Null THEN Null ELSE Obj("host_rtv", 0),
      depth_view          |-> IF o = Null THEN Null ELSE Obj("host_dsv", 0) ]

HostObjects == { Null, Obj("host", 0) }

HostPipes ==
    { HostPipe(o, nvp, nsc) : o \in HostObjects, nvp \in 0..MaxBound, nsc \in 0..MaxBound }

\* InnerState as #[derive(Default)] and ClassInstances::default construct it.
DefaultInnerState ==
    [ scissor_rects                    |-> <<>>,
      scissor_count                    |-> 0,
      viewports                        |-> <<>>,
      viewport_count                   |-> 0,
      raster_state                     |-> Null,
      blend_state                      |-> Null,
      blend_factor                     |-> <<0, 0, 0, 0>>,
      blend_mask                       |-> "0x00000000",
      depth_stencil_state              |-> Null,
      stencil_ref                      |-> 0,
      pixel_shader_resource            |-> Null,
      sampler                          |-> Null,
      vertex_shader                    |-> Null,
      vertex_shader_instances          |-> <<>>,
      vertex_shader_instances_count    |-> 0,
      geometry_shader                  |-> Null,
      geometry_shader_instances        |-> <<>>,
      geomentry_shader_instances_count |-> 0,
      pixel_shader                     |-> Null,
      pixel_shader_instances           |-> <<>>,
      pixel_shader_instances_count     |-> 0,
      constant_buffer                  |-> Null,
      primitive_topology               |-> "UNDEFINED",
      index_buffer                     |-> Null,
      index_buffer_format              |-> "UNKNOWN",
      index_buffer_offest              |-> 0,
      vertex_buffer                    |-> Null,
      vertex_buffer_strides            |-> 0,
      vertex_buffer_offsets            |-> 0,
      input_layout                     |-> Null ]

\* The instance count save passes to PSGetShader / VSGetShader / GSGetShader.
ClassInstanceCapacity == 256

\* A Get call with an in/out count (RSGetScissorRects, RSGetViewports,
\* PSGetShader, ...): on entry the count says how many slots the array has,
\* the call writes that many at most and leaves the number it wrote.  The
\* slots past it keep what they held.
GetArray(array, capacity, bound) ==
    LET n == Min(capacity, Len(bound))
    IN  [ array |-> [i \in 1..(IF Len(array) > n THEN Len(array) ELSE n) |->
                        IF i <= n THEN bound[i] ELSE array[i]],
          count |-> n ]

\* InnerState::save: the snapshot `s` after reading context `p`.
SaveState(s, p) ==
    LET sc == GetArray(s.scissor_rects, s.scissor_count, p.scissor_rects)
        vp == GetArray(s.viewports, s.viewport_count, p.viewports)
        ps == GetArray(s.pixel_shader_instances, ClassInstanceCapacity, p.ps_instances)
        vs == GetArray(s.vertex_shader_instances, ClassInstanceCapacity, p.vs_instances)
        gs == GetArray(s.geometry_shader_instances, ClassInstanceCapacity, p.gs_instances)
    IN  [ scissor_rects                    |-> sc.array,
          scissor_count                    |-> sc.count,
          viewports                        |-> vp.array,
          viewport_count                   |-> vp.count,
          raster_state                     |-> p.raster_state,
          blend_state                      |-> p.blend_state,
          blend_factor                     |-> p.blend_factor,
          blend_mask                       |-> p.blend_mask,
          depth_stencil_state              |-> p.depth_stencil_state,
          stencil_ref                      |-> p.stencil_ref,
          pixel_shader_resource            |-> p.ps_resource,
          sampler                          |-> p.ps_sampler,
          vertex_shader                    |-> p.vertex_shader,
          vertex_shader_instances          |-> vs.array,
          vertex_shader_instances_count    |-> vs.count,
          geometry_shader                  |-> p.geometry_shader,
          geometry_shader_instances        |-> gs.array,
          geomentry_shader_instances_count |-> gs.count,
          pixel_shader                     |-> p.pixel_shader,
          pixel_shader_instances           |-> ps.array,
          pixel_shader_instances_count     |-> ps.count,
          constant_buffer                  |-> p.vs_constant_buffer,
          primitive_topology               |-> p.primitive_topology,
          index_buffer                     |-> p.index_buffer,
          index_buffer_format              |-> p.index_format,
          index_buffer_offest              |-> p.index_offset,
          vertex_buffer                    |-> p.vertex_buffer,
          vertex_buffer_strides            |-> p.vb_stride,
          vertex_buffer_offsets            |-> p.vb_offset,
          input_layout                     |-> p.input_layout ]

\* InnerState::restore, the context: every Set call of restore applied to `p`.
\* The output-merger targets are not written.
RestorePipe(s, p) ==
    [ p EXCEPT
        !.scissor_rects       = SubSeq(s.scissor_rects, 1, s.scissor_count),
        !.viewports           = SubSeq(s.viewports, 1, s.viewport_count),
        !.raster_state        = s.raster_state,
        !.blend_state         = s.blend_state,
        !.blend_factor        = s.blend_factor,
        !.blend_mask          = s.blend_mask,
        !.depth_stencil_state = s.depth_stencil_state,
        !.stencil_ref         = s.stencil_ref,
        !.ps_resource         = s.pixel_shader_resource,
        !.ps_sampler          = s.sampler,
        !.pixel_shader        = s.pixel_shader,
        !.ps_instances        = SubSeq(s.pixel_shader_instances, 1, s.pixel_shader_instances_count),
        !.vertex_shader       = s.vertex_shader,
        !.vs_instances        = SubSeq(s.vertex_shader_instances, 1, s.vertex_shader_instances_count),
        !.geometry_shader     = s.geometry_shader,
        !.gs_instances        = SubSeq(s.geometry_shader_instances, 1, s.geomentry_shader_instances_count),
        !.vs_constant_buffer  = s.constant_buffer,
        !.primitive_topology  = s.primitive_topology,
        !.index_buffer        = s.index_buffer,
        !.index_format        = s.index_buffer_format,
        !.index_offset        = s.index_buffer_offest,
        !.vertex_buffer       = s.vertex_buffer,
        !.vb_stride           = s.vertex_buffer_strides,
        !.vb_offset           = s.vertex_buffer_offsets,
        !.input_layout        = s.input_layout ]

\* InnerState::restore, the snapshot: the Options restore take()s are None
\* afterwards; constant_buffer is passed by reference and stays, and
\* ClassInstances::release drops only references to the slots, so the
\* instance arrays keep their entries.
RestoreSnapshot(s) ==
    [ s EXCEPT
        !.raster_state          = Null,
        !.blend_state           = Null,
        !.depth_stencil_state   = Null,
        !.pixel_shader_resource = Null,
        !.sampler               = Null,
        !.pixel_shader          = Null,
        !.vertex_shader         = Null,
        !.geometry_shader       = Null,
        !.index_buffer          = Null,
        !.vertex_buffer         = Null,
        !.input_layout          = Null ]

\* InnerState's fields that hold a COM reference, and those restore take()s.
ObjectFields ==
    { "raster_state", "blend_state", "depth_stencil_state", "pixel_shader_resource",
      "sampler", "vertex_shader", "geometry_shader", "pixel_shader", "constant_buffer",
      "index_buffer", "vertex_buffer", "input_layout" }

TakenFields == ObjectFields \ { "constant_buffer" }

\* The objects whose reference counts are followed.
RefObjects == { Obj("host", 0), Obj("host_class_instance", 0), Obj("egui", 0) }

NoRefs == [ o \in RefObjects |-> 0 ]

\* How many slots of an array hold object `o`.
CountIn(array, o) == Cardinality({ i \in DOMAIN array : array[i] = o })

\* InnerState::save, the references: how many references to `o` its Get
\* calls take (each Get AddRefs the object it writes into the snapshot; what
\* the slot held before is overwritten, not released).
AcquiredBySave(s, p, o) ==
    LET t == SaveState(s, p)
    IN  Cardinality({ f \in ObjectFields : t[f] = o })
          + CountIn(SubSeq(t.pixel_shader_instances, 1, t.pixel_shader_instances_count), o)
          + CountIn(SubSeq(t.vertex_shader_instances, 1, t.vertex_shader_instances_count), o)
          + CountIn(SubSeq(t.geometry_shader_instances, 1, t.geomentry_shader_instances_count), o)

\* InnerState::restore, the references: how many references to `o` it
\* releases.  Every Option it take()s is dropped after its Set call;
\* constant_buffer is not taken, and ClassInstances::release drops
\* `&Option`s, which releases nothing.
ReleasedByRestore(s, o) == Cardinality({ f \in TakenFields : s[f] = o })

\* What the overlay binds in render_meshes, per binding; the bindings it does
\* not touch get a value of their own, for the arbitrary state-setting calls
\* of SpecBackup.
OverlayValue(f) ==
    CASE f = "scissor_rects"      -> << <<0, 0, 10, 10>> >>
      [] f = "viewports"          -> << <<0, 0, 800, 600, 0, 1>> >>
      [] f = "blend_factor"       -> <<0, 0, 0, 0>>
      [] f = "blend_mask"         -> "0x000000ff"
      [] f = "stencil_ref"        -> 9
      [] f = "vs_instances"       -> <<>>
      [] f = "gs_instances"       -> <<>>
      [] f = "ps_instances"       -> <<>>
      [] f = "geometry_shader"    -> Null
      [] f = "primitive_topology" -> "TRIANGLELIST"
      [] f = "index_format"       -> "R32_UINT"
      [] f = "index_offset"       -> 0
      [] f = "vb_stride"          -> 32
      [] f = "vb_offset"          -> 0
      [] f = "depth_view"         -> Null
      [] OTHER                    -> Obj("egui", 0)

\* ------------------------------------------------------------ geometry
\* Coordinates are fixed-point: FixedPoint units per pixel.
FixedPoint == 10

\* The client rectangle GetClientRect reports (get_screen_size), in pixels.
ScreenSize == <<800, 600>>

\* TextureId::Egui, the reserved font identifier, and a user texture.
TexEgui == <<"Egui", 0>>
TexUser(n) == <<"User", n>>

\* egui's conversion of one sRGB (gamma) byte to a linear channel, in 1/1000.
LinearFromGamma(b) ==
    CASE b = 0 -> 0
      [] b = 128 -> 216
      [] OTHER -> 1000

\* impl From<Vertex> for GpuVertex: position and uv are carried over, the
\* Color32 becomes a linear Rgba.
GpuVertexFrom(v) ==
    [ pos   |-> v.pos,
      uv    |-> v.uv,
      color |-> << "linear", LinearFromGamma(v.color[1]), LinearFromGamma(v.color[2]),
                   LinearFromGamma(v.color[3]), v.color[4] >> ]

\* impl From<ClippedMesh> for GpuMesh
GpuMeshFrom(cm) ==
    [ vertices |-> [i \in 1..Len(cm.vertices) |-> GpuVertexFrom(cm.vertices[i])],
      tex_id   |-> cm.texture_id,
      indices  |-> cm.indices,
      rect     |-> cm.rect ]

\* The predicate of convert_meshes' filter.
MeshFilter(m) == Len(m.indices) = 0 /\ Len(m.indices) % 3 = 0

\* convert_meshes
convert_meshes(clipped) ==
    LET kept == SelectSeq(clipped, MeshFilter)
    IN  [i \in 1..Len(kept) |-> GpuMeshFrom(kept[i])]

\* A coordinate moved to the screen's centre and scaled, the axis not flipped.
CoordUnflipped(p, extent, sign) ==
    LET half == (extent * FixedPoint) \div 2
        d    == p - half
    IN  IF d >= 0 THEN (d * 1000) \div half ELSE -(((-d) * 1000) \div half)

\* normalize_meshes, one coordinate: (p - half) / half, in 1/1000 of a clip
\* unit; `half` is half the screen extent, `sign` is -1 for the y axis.
NormalizeCoord(p, extent, sign) ==
    LET half == (extent * FixedPoint) \div 2
        d    == p - half
        q    == IF d >= 0 THEN (d * 1000) \div half ELSE -(((-d) * 1000) \div half)
    IN  sign * q

\* normalize_meshes: every vertex position of every mesh; nothing else.
normalize_meshes(ms) ==
    [i \in 1..Len(ms) |->
        [ ms[i] EXCEPT !.vertices =
            [j \in 1..Len(ms[i].vertices) |->
                [ ms[i].vertices[j] EXCEPT !.pos =
                    << NormalizeCoord(ms[i].vertices[j].pos[1], ScreenSize[1], 1),
                       NormalizeCoord(ms[i].vertices[j].pos[2], ScreenSize[2], -1) >> ]]]]

\* `x as i32` of an f32: the fraction is dropped (toward zero).
AsI32(x) == IF x >= 0 THEN x \div FixedPoint ELSE -((-x) \div FixedPoint)

\* The RECT render_meshes passes to RSSetScissorRects for a mesh.
ScissorRect(m) == << AsI32(m.rect[1]), AsI32(m.rect[2]), AsI32(m.rect[3]), AsI32(m.rect[4]) >>

\* size_of::<GpuVertex>(): 2 + 2 + 4 floats.
GpuVertexSize == 32

\* TextureAllocator::font_resource: the font atlas's shader resource view.
FontResource == Obj("font_srv", 0)

\* ------------------------------------------- render_meshes, the context
\* set_viewports, set_blend_state, set_raster_state
SetSharedRasterState(p) ==
    [ p EXCEPT
        !.viewports    = << <<0, 0, ScreenSize[1], ScreenSize[2], 0, 1>> >>,
        !.blend_state  = Obj("egui_blend", 0),
        !.blend_factor = <<0, 0, 0, 0>>,
        !.blend_mask   = "0xffffffff",
        !.raster_state = Obj("egui_raster", 0) ]

\* OMSetRenderTargets .. GSSetShader, with `view` the stored render-target view.
BindShared(p, view) ==
    [ p EXCEPT
        !.render_target      = Obj("rtv", view),
        !.depth_view         = Null,
        !.primitive_topology = "TRIANGLELIST",
        !.input_layout       = Obj("egui_layout", 0),
        !.vertex_shader      = Obj("egui_vs", 0),
        !.vs_instances       = <<>>,
        !.pixel_shader       = Obj("egui_ps", 0),
        !.ps_instances       = <<>>,
        !.ps_sampler         = Obj("egui_sampler", 0),
        !.geometry_shader    = Null,
        !.gs_instances       = <<>> ]

\* A draw loop that also binds a sampler of its own for every mesh.
BindMeshAndSampler(p, m, k) ==
    [ p EXCEPT
        !.vertex_buffer = Obj("mesh_vb", k),
        !.index_buffer  = Obj("mesh_ib", k),
        !.ps_sampler    = Obj("mesh_sampler", k),
        !.scissor_rects = << ScissorRect(m) >> ]

\* The per-mesh bindings of the draw loop; `k` identifies the mesh's buffers.
BindMesh(p, m, k) ==
    [ p EXCEPT
        !.vertex_buffer = Obj("mesh_vb", k),
        !.vb_stride     = GpuVertexSize,
        !.vb_offset     = 0,
        !.index_buffer  = Obj("mesh_ib", k),
        !.index_format  = "R32_UINT",
        !.index_offset  = 0,
        !.ps_resource   = IF m.tex_id = TexEgui THEN FontResource ELSE @,
        !.scissor_rects = << ScissorRect(m) >> ]

\* A draw of one triangle, whatever the mesh.
DrawRecordTriangle(p, m, viewReleases) ==
    [ index_count   |-> 3,
      tex_id        |-> m.tex_id,
      vertex_buffer |-> p.vertex_buffer,
      index_buffer  |-> p.index_buffer,
      ps_resource   |-> p.ps_resource,
      scissor       |-> p.scissor_rects,
      render_target |-> p.render_target,
      view_releases |-> viewReleases ]

\* What DrawIndexed draws with: the draw's index count and the bindings.
DrawRecord(p, m, viewReleases) ==
    [ index_count   |-> Len(m.indices),
      tex_id        |-> m.tex_id,
      vertex_buffer |-> p.vertex_buffer,
      index_buffer  |-> p.index_buffer,
      ps_resource   |-> p.ps_resource,
      scissor       |-> p.scissor_rects,
      render_target |-> p.render_target,
      view_releases |-> viewReleases ]

\* -------------------------------------------------------------- textures
\* TextureAllocator::default: the empty map.
NoTextures == [ id \in {} |-> 0 ]

\* TexturesDelta: the ids to free, in order, and the image to set per id.
TexturesDelta(free, set) == [ free |-> free, set |-> set ]

NoDelta == TexturesDelta(<<>>, NoTextures)

\* egui::ImageData: Color (four bytes a pixel) or Alpha (one byte a pixel),
\* the pixels row by row.
ImageData(kind, width, height, pixels) ==
    [ kind |-> kind, width |-> width, height |-> height, pixels |-> pixels ]

\* egui::ImageDelta: pos is <<>> for None (the whole image), <<x, y>> for
\* Some([x, y]) (a patch at that origin).
ImageDelta(pos, image) == [ pos |-> pos, image |-> image ]

bytes_per_pixel(image) == IF image.kind = "Alpha" THEN 1 ELSE 4

get_image_format(image) ==
    IF bytes_per_pixel(image) = 1 THEN "R8_UNORM" ELSE "R8G8B8A8_UNORM"

\* What is read from memory that no image owns.
Garbage == <<"?", 0>>

\* TextureAllocator::create_texture: a dynamic, CPU-writable texture of the
\* image's size and format, initialised with its pixels.  A GPU object is
\* identified by its position in `g`.
create_texture(image, g) ==
    Append(g, [ type |-> "texture", format |-> get_image_format(image),
                width |-> image.width, height |-> image.height,
                content |-> image.pixels, of |-> 0, releases |-> 0, mapped |-> FALSE ])

\* TextureAllocator::create_resource: a view of `texture`.
create_resource(format, texture, g) ==
    Append(g, [ type |-> "view", format |-> format,
                width |-> 0, height |-> 0,
                content |-> <<>>, of |-> texture, releases |-> 0, mapped |-> FALSE ])

\* TextureAllocator::allocate_texture
allocate_texture(image, g) ==
    LET g1 == create_texture(image, g)
        g2 == create_resource(get_image_format(image), Len(g1), g1)
    IN  [ tex |-> [ resource |-> Len(g2), texture |-> Len(g1), image |-> image ],
          gpu |-> g2 ]

\* IUnknown::Release on the reference the app holds of object o.
Release(g, o) == [ g EXCEPT ![o].releases = @ + 1 ]

\* An AllocatedTexture forgotten without a Release.
LeakTexture(g, t) == g

\* The drop of an AllocatedTexture: its fields in declaration order.
DropTexture(g, t) == Release(Release(g, t.resource), t.texture)

\* HashMap::remove and HashMap::insert (the map afterwards).
MapRemove(a, id) == [ k \in (DOMAIN a) \ {id} |-> a[k] ]
MapInsert(a, id, t) == [ k \in (DOMAIN a) \cup {id} |-> IF k = id THEN t ELSE a[k] ]

\* A map and its objects left as they are.
KeepTextures(a, g, free) == [ allocated |-> a, gpu |-> g ]

\* resolve_delta's first loop: drop(lock.remove(&free)) for each freed id.
RECURSIVE FreeTextures(_, _, _)
FreeTextures(a, g, free) ==
    IF free = <<>> THEN [ allocated |-> a, gpu |-> g ]
    ELSE LET id == Head(free)
         IN  IF id \in DOMAIN a
             THEN FreeTextures(MapRemove(a, id), DropTexture(g, a[id]), Tail(free))
             ELSE FreeTextures(a, g, Tail(free))

\* update: the mapped buffer (WRITE_DISCARD) after copy_from_nonoverlapping
\* of the held image: `pitch` elements a row, `height` rows; element k is
\* pixel k of the held image, read linearly, and past its end whatever
\* lies there.
MappedData(img, pitch) ==
    [ k \in 1..(pitch * img.height) |->
        IF k <= Len(img.pixels) THEN img.pixels[k] ELSE Garbage ]

\* update: the element index that pixel i (from 0) of the patch is written to:
\* data[y * img.width() + x].
PatchIndex(img, pos, new, i) ==
    (pos[2] + (i \div new.width)) * img.width + (pos[1] + (i % new.width))

\* update: the buffer after the patch's loops.
PatchData(data, img, pos, new) ==
    [ k \in 1..Len(data) |->
        LET hits == { i \in 0..(Len(new.pixels) - 1) : PatchIndex(img, pos, new, i) + 1 = k }
        IN  IF hits = {} THEN data[k]
            ELSE new.pixels[(CHOOSE i \in hits : \A j \in hits : j <= i) + 1] ]

\* The texels of a width x height texture whose mapped rows are `pitch`
\* elements apart, row by row.
TexelsOf(data, width, height, pitch) ==
    [ n \in 1..(width * height) |-> data[((n - 1) \div width) * pitch + ((n - 1) % width) + 1] ]

\* AllocatedTexture::update with Map succeeding and the formats matching:
\* the GPU objects afterwards (self.image is not written).
update(tex, pos, new, g, pitch) ==
    [ g EXCEPT ![tex.texture].content =
        TexelsOf(PatchData(MappedData(tex.image, pitch), tex.image, pos, new),
                 tex.image.width, tex.image.height, pitch) ]

\* update copies RowPitch * height elements: more than the held image has,
\* and (for Color, whose elements are four bytes) more than the mapped
\* buffer has, unless the image is Alpha and its rows are packed.
Overrun(img, pitch) == img.kind = "Color" \/ pitch > img.width

\* The match of update: both Color or both Alpha.
SameKind(img, new) == img.kind = new.kind

\* ---------------------------------------------------------------- input
\* A window message: wparam and lparam are given by their 16-bit words,
\* <<high, low>> (of the low 32 bits).
Message(umsg, wparam, lparam) == [ umsg |-> umsg, wparam |-> wparam, lparam |-> lparam ]

\* What process reads besides the message: the keyboard state and the
\* clipboard.  A text is the sequence of its code points.
Env(ctrl, shift, clipboard) == [ ctrl |-> ctrl, shift |-> shift, clipboard |-> clipboard ]

Clipboard(state, text) == [ state |-> state, text |-> text ]

\* A clipboard that can be opened and holds no CF_TEXT data: GetClipboardData
\* returns a null handle.  `read` is what reading a C string at the null
\* pointer does: "fault" (access violation), "text" or "invalid_utf8" (bytes
\* were read).
NoTextClipboard(read) == [ state |-> "no_text", text |-> << 63 >>, null_read |-> read ]

\* No wnd_proc call in progress.
NoMessage ==
    [ m   |-> Message("WM_NULL", <<0, 0>>, <<0, 0>>),
      env |-> Env(FALSE, FALSE, Clipboard("unavailable", <<>>)) ]

\* `w as i16` of a 16-bit word.
AsI16(w) == IF w >= 32768 THEN w - 65536 ELSE w

\* wparam & flag != 0, for a one-bit flag of the low word.
HasFlag(wparam, flag) == (wparam[2] \div flag) % 2 = 1

MK_SHIFT == 4
MK_CONTROL == 8
WHEEL_DELTA == 120

\* get_pos
get_pos(lparam) == << AsI16(lparam[2]), AsI16(lparam[1]) >>

\* get_modifiers
get_modifiers(wparam) ==
    [ alt     |-> FALSE,
      ctrl    |-> HasFlag(wparam, MK_CONTROL),
      shift   |-> HasFlag(wparam, MK_SHIFT),
      mac_cmd |-> FALSE,
      command |-> HasFlag(wparam, MK_CONTROL) ]

\* get_key_modifiers: env.ctrl / env.shift say whether GetAsyncKeyState gave
\* a non-zero state for VK_CONTROL / VK_LSHIFT.
get_key_modifiers(umsg, env) ==
    [ alt     |-> umsg = "WM_SYSKEYDOWN",
      mac_cmd |-> FALSE,
      command |-> env.ctrl,
      shift   |-> env.shift,
      ctrl    |-> env.ctrl ]

\* egui::Key, in the order of its discriminants (0 is ArrowDown).
KeyNames ==
    << "ArrowDown", "ArrowLeft", "ArrowRight", "ArrowUp", "Escape", "Tab",
       "Backspace", "Enter", "Space", "Insert", "Delete", "Home", "End",
       "PageUp", "PageDown",
       "Num0", "Num1", "Num2", "Num3", "Num4", "Num5", "Num6", "Num7", "Num8", "Num9",
       "A", "B", "C", "D", "E", "F", "G", "H", "I", "J", "K", "L", "M",
       "N", "O", "P", "Q", "R", "S", "T", "U", "V", "W", "X", "Y", "Z" >>

NoKey == "None"

\* get_key: the digits and letters by transmute of (wparam as u8) less an
\* offset, the other keys by their virtual-key code (wparam as u16).
get_key(wparam) ==
    IF wparam[1] = 0 /\ wparam[2] \in 48..57 THEN KeyNames[(wparam[2] - 33) + 1]
    ELSE IF wparam[1] = 0 /\ wparam[2] \in 65..90 THEN KeyNames[(wparam[2] - 40) + 1]
    ELSE CASE wparam[2] = 40 -> "ArrowDown"
           [] wparam[2] = 37 -> "ArrowLeft"
           [] wparam[2] = 39 -> "ArrowRight"
           [] wparam[2] = 38 -> "ArrowUp"
           [] wparam[2] = 27 -> "Escape"
           [] wparam[2] = 9  -> "Tab"
           [] wparam[2] = 8  -> "Backspace"
           [] wparam[2] = 13 -> "Enter"
           [] wparam[2] = 32 -> "Space"
           [] wparam[2] = 45 -> "Insert"
           [] wparam[2] = 46 -> "Delete"
           [] wparam[2] = 36 -> "Home"
           [] wparam[2] = 35 -> "End"
           [] wparam[2] = 33 -> "PageUp"
           [] wparam[2] = 34 -> "PageDown"
           [] OTHER -> NoKey

\* get_clipboard_text: `clip` is the clipboard as the call finds it.  A text
\* that is not UTF-8 leaves through `?`, before CloseClipboard.  The handle
\* GetClipboardData returns goes to CStr::from_ptr unchecked: with no text on
\* the clipboard that is a read through a null pointer.
get_clipboard_text(clip) ==
    LET none(open)  == [ some |-> FALSE, text |-> <<>>, left_open |-> open, fault |-> FALSE ]
        some(text)  == [ some |-> TRUE, text |-> text, left_open |-> FALSE, fault |-> FALSE ]
    IN  CASE clip.state = "unavailable"  -> none(FALSE)
          [] clip.state = "invalid_utf8" -> none(TRUE)
          [] clip.state = "no_text" ->
                CASE clip.null_read = "fault"        -> [ none(TRUE) EXCEPT !.fault = TRUE ]
                  [] clip.null_read = "invalid_utf8" -> none(TRUE)
                  [] OTHER                           -> some(clip.text)
          [] OTHER -> some(clip.text)

\* char::from_u32(wparam as u32) is Some(ch) and !ch.is_control().
IsTextChar(wparam) ==
    /\ ~(wparam[1] = 0 /\ wparam[2] \in 55296..57343)
    /\ wparam[1] <= 16
    /\ ~(wparam[1] = 0 /\ (wparam[2] < 32 \/ wparam[2] \in 127..159))

\* A wheel delta that reads the high word unsigned.
WheelDeltaUnsigned(wparam) == << wparam[1] * 10, WHEEL_DELTA >>

\* The wheel's delta, (wparam >> 16) as i16 as f32 * 10. / WHEEL_DELTA, as the
\* fraction <<numerator, denominator>>.
WheelDelta(wparam) == << AsI16(wparam[1]) * 10, WHEEL_DELTA >>

WheelEvent(wparam, horizontal) ==
    IF HasFlag(wparam, MK_CONTROL)
    THEN << "Zoom", IF WheelDelta(wparam)[1] > 0 THEN <<15, 10>> ELSE <<5, 10>> >>
    ELSE IF horizontal
         THEN << "Scroll", WheelDelta(wparam), <<0, 1>> >>
         ELSE << "Scroll", <<0, 1>>, WheelDelta(wparam) >>

PointerButtonEvent(m, button, pressed) ==
    << "PointerButton", get_pos(m.lparam), button, pressed, get_modifiers(m.wparam) >>

\* A key-down handler that pushes the raw Key event for every key.
KeyDownRaw(m, key, env) == << << "Key", key, TRUE, get_key_modifiers(m.umsg, env) >> >>

\* The event a key-down message pushes for `key`.
KeyDownEvent(m, key, env) ==
    LET mods == get_key_modifiers(m.umsg, env)
    IN  IF key = "Space" THEN << << "Text", << 32 >> >> >>
        ELSE IF key = "V" /\ mods.ctrl
             THEN IF get_clipboard_text(env.clipboard).some
                  THEN << << "Text", get_clipboard_text(env.clipboard).text >> >>
                  ELSE <<>>
        ELSE IF key = "C" /\ mods.ctrl THEN << << "Copy" >> >>
        ELSE IF key = "X" /\ mods.ctrl THEN << << "Cut" >> >>
        ELSE << << "Key", key, TRUE, mods >> >>

\* The paste branch of a key-down message is taken and its read of the
\* clipboard faults.
PasteFaults(m, env) ==
    /\ get_key(m.wparam) = "V"
    /\ get_key_modifiers(m.umsg, env).ctrl
    /\ get_clipboard_text(env.clipboard).fault

\* The paste branch of a key-down message is taken and get_clipboard_text
\* returns with the clipboard it opened still open.
PasteLeavesOpen(m, env) ==
    /\ get_key(m.wparam) = "V"
    /\ get_key_modifiers(m.umsg, env).ctrl
    /\ get_clipboard_text(env.clipboard).left_open

\* InputCollector::process: the events the message pushes (none or one),
\* whether self.events.lock() is taken, the value returned, whether the
\* call faults under the lock instead of returning, and whether it leaves
\* the system clipboard open.
process(m, env) ==
    LET u == m.umsg
        one(e) == [ push |-> <<e>>, locked |-> TRUE, handled |-> TRUE, fault |-> FALSE,
                    left_open |-> FALSE ]
        none == [ push |-> <<>>, locked |-> FALSE, handled |-> TRUE, fault |-> FALSE,
                  left_open |-> FALSE ]
    IN  CASE u = "WM_MOUSEMOVE" -> one(<< "PointerMoved", get_pos(m.lparam) >>)
          [] u \in {"WM_LBUTTONDOWN", "WM_LBUTTONDBLCLK"} -> one(PointerButtonEvent(m, "Primary", TRUE))
          [] u = "WM_LBUTTONUP" -> one(PointerButtonEvent(m, "Primary", FALSE))
          [] u \in {"WM_RBUTTONDOWN", "WM_RBUTTONDBLCLK"} -> one(PointerButtonEvent(m, "Secondary", TRUE))
          [] u = "WM_RBUTTONUP" -> one(PointerButtonEvent(m, "Secondary", FALSE))
          [] u \in {"WM_MBUTTONDOWN", "WM_MBUTTONDBLCLK"} -> one(PointerButtonEvent(m, "Middle", TRUE))
          [] u = "WM_MBUTTONUP" -> one(PointerButtonEvent(m, "Middle", FALSE))
          [] u = "WM_CHAR" ->
                IF IsTextChar(m.wparam) THEN one(<< "Text", << m.wparam[1] * 65536 + m.wparam[2] >> >>) ELSE none
          [] u = "WM_MOUSEWHEEL" -> one(WheelEvent(m.wparam, FALSE))
          [] u = "WM_MOUSEHWHEEL" -> one(WheelEvent(m.wparam, TRUE))
          [] u \in {"WM_KEYDOWN", "WM_SYSKEYDOWN"} ->
                IF get_key(m.wparam) = NoKey THEN none
                ELSE [ push    |-> KeyDownEvent(m, get_key(m.wparam), env),
                       locked  |-> TRUE,
                       handled |-> TRUE,
                       fault   |-> PasteFaults(m, env),
                       left_open |-> PasteLeavesOpen(m, env) ]
          [] u \in {"WM_KEYUP", "WM_SYSKEYUP"} ->
                IF get_key(m.wparam) = NoKey THEN none
                ELSE one(<< "Key", get_key(m.wparam), FALSE, get_key_modifiers(u, env) >>)
          [] OTHER -> [ push |-> <<>>, locked |-> FALSE, handled |-> FALSE, fault |-> FALSE,
                        left_open |-> FALSE ]

\* A queue that takes new events at its front.
PushFront(queue, pushed) == pushed \o queue

\* A collector that copies the queue and leaves it as it is.
CopyQueue(queue) == [ returned |-> queue, queue |-> queue ]

\* The queue after process has pushed: Vec::push appends.
PushEvents(queue, pushed) == queue \o pushed

\* collect_input: std::mem::take of the queue under its lock; the events
\* taken go into the RawInput returned, the queue is left empty.
collect_input(queue) == [ returned |-> queue, queue |-> <<>> ]

\* ------------------------------------------------------------ the state
VARIABLES
    proc,        \* "running", or "aborted" once the process has been terminated
    pipe,        \* the device context's bindings
    snap,        \* BackupState's InnerState
    bk,          \* SpecBackup's harness: phase, the context at save, counters
    locks,       \* the holder of each parking_lot::Mutex of the app
    render_view, \* DirectX11App::render_view: the identity of the stored view
    released,    \* per view ever created: the Release calls made on the
                 \* reference that render_view owns
    pc,          \* the render thread's place in present
    fr,          \* the present call: context at entry, save / restore done, counters;
                 \* the place of a present call made from a second thread
    clipped,     \* the frame's tessellated draw list (Vec<ClippedMesh>)
    meshes,      \* the frame's Vec<GpuMesh>
    idx,         \* the draw loop's position in meshes
    drawn,       \* the DrawIndexed calls of the frame
    rpc,         \* the resize thread's place in resize_buffers
    rs,          \* the resize_buffers call: its steps so far, result, new view
    events,      \* InputCollector::events: the queue of egui events
    input,       \* the events of the RawInput the last collect_input returned
    mpc,         \* the message thread's place in wnd_proc / process
    msg,         \* the window message being processed
    cpc,         \* SpecInput's collecting thread: its place in collect_input
    ih,          \* SpecInput's harness: events appended and delivered so far, the
                 \* message of the call before, whether the clipboard is left open
    allocated,   \* TextureAllocator::allocated: TextureId -> AllocatedTexture
    gpu,         \* every texture and view the device has created: its
                 \* content and the Release calls made on it
    tpc,         \* the place in resolve_delta
    tx           \* the resolve_delta call: its delta, the map and the GPU
                 \* objects at its start, counters

vars == << proc, pipe, snap, bk, locks, render_view, released,
           pc, fr, clipped, meshes, idx, drawn, rpc, rs,
           events, input, mpc, msg, cpc, ih, allocated, gpu, tpc, tx >>

backupVars == << bk >>
renderVars == << pc, fr, clipped, meshes, idx, drawn >>
resizeVars == << rpc, rs >>
viewVars   == << render_view, released >>
queueVars  == << events, input >>
msgVars    == << mpc, msg, cpc, ih >>
texVars    == << allocated, gpu, tpc, tx >>

Free == "none"

\* DirectX11App::new_with_state: every mutex free, the first render-target
\* view stored, nothing collected or drawn yet.
InitApp ==
    /\ proc = "running"
    /\ snap = DefaultInnerState
    /\ locks = [ l \in {"ctx", "state", "events", "render_view", "allocated"} |-> Free ]
    /\ render_view = 1
    /\ released = <<0>>
    /\ fr = [ entry |-> <<>>, saved |-> FALSE, restored |-> FALSE, frames |-> 0, buffers |-> 0,
              log |-> <<>>, ui_calls |-> 0, ui_input |-> <<>>, delta |-> NoDelta,
              other |-> "idle", other_calls |-> 0 ]
    /\ meshes = <<>>
    /\ idx = 0
    /\ drawn = <<>>
    /\ rpc = "idle"
    /\ rs = [ log |-> <<>>, result |-> "none", returned |-> "none", new_view |-> 0, calls |-> 0 ]
    /\ events = <<>>
    /\ input = <<>>
    /\ mpc = "idle"
    /\ msg = NoMessage
    /\ cpc = "idle"
    /\ ih = [ appended |-> <<>>, delivered |-> <<>>, prev |-> <<>>, last |-> "none",
              streak |-> 0, batches |-> 0, msgs |-> 0, collects |-> 0,
              before |-> NoMessage.m, clipboard_open |-> FALSE ]
    /\ allocated = NoTextures
    /\ gpu = <<>>
    /\ tpc = "idle"
    /\ tx = [ delta |-> NoDelta, todo |-> {}, before |-> NoTextures, gpu_before |-> <<>>,
              overrun |-> FALSE, calls |-> 0, patches |-> NoTextures ]

IdleBackup == bk = [ phase |-> "off", atSave |-> <<>>, sets |-> 0, cycles |-> 0, refs |-> NoRefs ]

\* ------------------------------------------ SpecBackup: save ... restore
InitBackup ==
    /\ InitApp
    /\ pc = "idle"
    /\ clipped = <<>>
    /\ pipe \in HostPipes
    /\ bk = [ phase |-> "host", atSave |-> <<>>, sets |-> 0, cycles |-> 0, refs |-> NoRefs ]

\* BackupState::save
BkSave ==
    /\ bk.phase = "host"
    /\ bk.cycles < MaxCycles
    /\ snap' = SaveState(snap, pipe)
    /\ bk' = [ bk EXCEPT !.phase = "saved", !.atSave = pipe, !.sets = 0,
                         !.refs = [ o \in RefObjects |-> @[o] + AcquiredBySave(snap, pipe, o) ] ]
    /\ UNCHANGED << texVars, proc, pipe, locks, viewVars, renderVars, resizeVars, queueVars, msgVars >>

\* Any state-setting call on the context between save and restore.
BkSet ==
    /\ bk.phase = "saved"
    /\ bk.sets < MaxSets
    /\ \E f \in PipeFields :
          /\ pipe[f] # OverlayValue(f)
          /\ pipe' = [ pipe EXCEPT ![f] = OverlayValue(f) ]
    /\ bk' = [ bk EXCEPT !.sets = @ + 1 ]
    /\ UNCHANGED << texVars, proc, snap, locks, viewVars, renderVars, resizeVars, queueVars, msgVars >>

\* BackupState::restore
BkRestore ==
    /\ bk.phase = "saved"
    /\ pipe' = RestorePipe(snap, pipe)
    /\ snap' = RestoreSnapshot(snap)
    /\ bk' = [ bk EXCEPT !.phase = "restored", !.cycles = @ + 1,
                         !.refs = [ o \in RefObjects |-> @[o] - ReleasedByRestore(snap, o) ] ]
    /\ UNCHANGED << texVars, proc, locks, viewVars, renderVars, resizeVars, queueVars, msgVars >>

\* The host goes on and leaves the context in a state of its own.
BkHost ==
    /\ bk.phase = "restored"
    /\ pipe' \in HostPipes
    /\ bk' = [ bk EXCEPT !.phase = "host" ]
    /\ UNCHANGED << texVars, proc, snap, locks, viewVars, renderVars, resizeVars, queueVars, msgVars >>

NextBackup == BkSave \/ BkSet \/ BkRestore \/ BkHost

SpecBackup == InitBackup /\ [][NextBackup]_vars

\* C1: after restore, every snapshot field read from the context equals the
\* value read immediately before save, whatever was set in between.
C1_RestoreEqualsSave ==
    bk.phase = "restored" => \A f \in SnapshotFields : pipe[f] = bk.atSave[f]

\* ------------------------------------------------ SpecRender: the app
\* The most present calls, resize_buffers calls, meshes per frame.
MaxFrames == 2
MaxResizes == 1
MaxMeshes == 2

\* What the GUI can hand back from a frame (CtxRef::run and tessellate): draws
\* of 0 or 3 indices, of the font texture or a user texture.
UiVertex(i) ==
    [ pos   |-> IF i = 1 THEN <<0, 0>> ELSE IF i = 2 THEN <<8000, 0>> ELSE <<8000, 6000>>,
      uv    |-> <<0, 0>>,
      color |-> <<255, 128, 0, 255>> ]

UiDraw(n, tex, rect) ==
    [ rect       |-> rect,
      vertices   |-> [i \in 1..n |-> UiVertex(i)],
      indices    |-> [i \in 1..n |-> i - 1],
      texture_id |-> tex ]

UiDraws ==
    { UiDraw(n, TexEgui, <<0, 0, 8000, 6000>>) : n \in {0, 3} }
        \cup { UiDraw(n, TexUser(1), <<106, 104, 4000, 3006>>) : n \in {0, 3} }

SeqsUpTo(S, n) == UNION { [1..k -> S] : k \in 0..n }

\* The states the host leaves the context in between two calls (SpecRender).
RenderHostPipes == { HostPipe(o, n, n) : o \in HostObjects, n \in 0..MaxBound }

\* Unwinding, or returning, drops every guard the thread holds.
DropGuards(who) == [ l \in DOMAIN locks |-> IF locks[l] = who THEN Free ELSE locks[l] ]

InitRender ==
    /\ InitApp
    /\ IdleBackup
    /\ pc = "idle"
    /\ clipped = <<>>
    /\ pipe \in RenderHostPipes

\* present is called: get_device_context, then self.ctx.lock() is awaited.
PresentCall ==
    /\ proc = "running"
    /\ pc = "idle"
    /\ fr.frames < MaxFrames
    /\ pc' = "lock_ctx"
    /\ fr' = [ fr EXCEPT !.entry = pipe, !.saved = FALSE, !.restored = FALSE,
                         !.log = <<>>, !.ui_calls = 0, !.ui_input = <<>>, !.delta = NoDelta ]
    /\ drawn' = <<>>
    /\ UNCHANGED << texVars, proc, pipe, snap, locks, viewVars, clipped, meshes, idx, backupVars, resizeVars, queueVars, msgVars >>

\* A present that goes on without waiting for the GUI context's lock.
PresentTakeCtx ==
    /\ proc = "running"
    /\ pc = "lock_ctx"
    /\ locks' = [ locks EXCEPT !.ctx = "render" ]
    /\ pc' = "layout"
    /\ UNCHANGED << texVars, proc, pipe, snap, viewVars, fr, clipped, meshes, idx, drawn, backupVars, resizeVars, queueVars, msgVars >>

\* let ctx_lock = &mut *self.ctx.lock(): the guard lives to the end of present.
PresentLockCtx ==
    /\ proc = "running"
    /\ pc = "lock_ctx"
    /\ locks.ctx = Free
    /\ locks' = [ locks EXCEPT !.ctx = "render" ]
    /\ pc' = "layout"
    /\ UNCHANGED << texVars, proc, pipe, snap, viewVars, fr, clipped, meshes, idx, drawn, backupVars, resizeVars, queueVars, msgVars >>

\* present going on to the GUI run without collecting.
PresentSkipCollect ==
    /\ proc = "running"
    /\ pc = "layout"
    /\ pc' = "run"
    /\ UNCHANGED << texVars, proc, pipe, snap, locks, viewVars, fr, clipped, meshes, idx, drawn,
                    backupVars, resizeVars, queueVars, msgVars >>

\* let input = self.input_collector.collect_input(): the queue is taken
\* under its lock, which is released again within the statement.
PresentCollect ==
    /\ proc = "running"
    /\ pc = "layout"
    /\ locks.events = Free
    /\ input' = collect_input(events).returned
    /\ events' = collect_input(events).queue
    /\ ih' = [ ih EXCEPT !.delivered = @ \o input',
                         !.prev = events,
                         !.last = "collect",
                         !.streak = @ + 1,
                         !.batches = IF input' = <<>> THEN @ ELSE @ + 1,
                         !.collects = @ + 1 ]
    /\ fr' = [ fr EXCEPT !.log = Append(@, "collect") ]
    /\ pc' = "run"
    /\ UNCHANGED << texVars, proc, pipe, snap, locks, viewVars, clipped, meshes, idx, drawn,
                    backupVars, resizeVars, mpc, msg, cpc >>

\* ctx_lock.run(input, |u| (*ui)(u, &mut *self.state.lock())): the GUI calls
\* the closure, which takes the state lock and enters the UI callback.
PresentUiBegin ==
    /\ proc = "running"
    /\ pc = "run"
    /\ locks.state = Free
    /\ locks' = [ locks EXCEPT !.state = "render" ]
    /\ fr' = [ fr EXCEPT !.log = Append(@, "ui_begin"), !.ui_calls = @ + 1, !.ui_input = input ]
    /\ pc' = "ui"
    /\ UNCHANGED << texVars, proc, pipe, snap, viewVars, clipped, meshes, idx, drawn,
                    backupVars, resizeVars, queueVars, msgVars >>

\* The UI callback returning with the state guard kept.
UiEndHolding(deltas) ==
    /\ proc = "running"
    /\ pc = "ui"
    /\ \E delta \in deltas :
          fr' = [ fr EXCEPT !.log = Append(@, "ui_end"), !.delta = delta ]
    /\ pc' = "convert"
    /\ UNCHANGED << texVars, proc, pipe, snap, locks, viewVars, clipped, meshes, idx, drawn,
                    backupVars, resizeVars, queueVars, msgVars >>

\* The UI callback returns and the closure's guard drops; run returns the
\* GUI's output (with the frame's texture delta, which present does not read)
\* and its shapes.
PresentUiEndOf(deltas) ==
    /\ proc = "running"
    /\ pc = "ui"
    /\ locks' = [ locks EXCEPT !.state = Free ]
    /\ \E delta \in deltas :
          fr' = [ fr EXCEPT !.log = Append(@, "ui_end"), !.delta = delta ]
    /\ pc' = "convert"
    /\ UNCHANGED << texVars, proc, pipe, snap, viewVars, clipped, meshes, idx, drawn,
                    backupVars, resizeVars, queueVars, msgVars >>

PresentUiEnd == PresentUiEndOf({ NoDelta })

\* update_font_if_needed (which keeps the font atlas, FontResource, current),
\* ctx_lock.tessellate(shapes), convert_meshes.
PresentConvertOf(draws) ==
    /\ proc = "running"
    /\ pc = "convert"
    /\ \E out \in draws :
          /\ clipped' = out
          /\ meshes' = convert_meshes(out)
    /\ fr' = [ fr EXCEPT !.log = Append(@, "convert") ]
    /\ pc' = "save"
    /\ UNCHANGED << texVars, proc, pipe, snap, locks, viewVars, idx, drawn,
                    backupVars, resizeVars, queueVars, msgVars >>

PresentConvert == PresentConvertOf(SeqsUpTo(UiDraws, MaxMeshes))

\* render_meshes: self.backup.save(ctx)
RenderSave ==
    /\ proc = "running"
    /\ pc = "save"
    /\ snap' = SaveState(snap, pipe)
    /\ fr' = [ fr EXCEPT !.saved = TRUE, !.log = Append(@, "save") ]
    /\ pc' = "shared"
    /\ UNCHANGED << texVars, proc, pipe, locks, viewVars, clipped, meshes, idx, drawn, backupVars, resizeVars, queueVars, msgVars >>

\* render_meshes: normalize_meshes, set_viewports, set_blend_state,
\* set_raster_state; then self.render_view.lock() is awaited.
RenderShared ==
    /\ proc = "running"
    /\ pc = "shared"
    /\ meshes' = normalize_meshes(meshes)
    /\ pipe' = SetSharedRasterState(pipe)
    /\ fr' = [ fr EXCEPT !.log = Append(@, "set") ]
    /\ pc' = "lock_view"
    /\ UNCHANGED << texVars, proc, snap, locks, viewVars, clipped, idx, drawn, backupVars, resizeVars, queueVars, msgVars >>

\* let view_lock = &mut *self.render_view.lock(): the guard lives to the end
\* of render_meshes.  Then OMSetRenderTargets .. GSSetShader.
RenderBind ==
    /\ proc = "running"
    /\ pc = "lock_view"
    /\ locks.render_view = Free
    /\ locks' = [ locks EXCEPT !.render_view = "render" ]
    /\ pipe' = BindShared(pipe, render_view)
    /\ idx' = 1
    /\ fr' = [ fr EXCEPT !.log = Append(@, "bind") ]
    /\ pc' = "loop"
    /\ UNCHANGED << texVars, proc, snap, viewVars, clipped, meshes, drawn, backupVars, resizeVars, queueVars, msgVars >>

\* One turn of the draw loop with MeshBuffers::new succeeding: the buffers,
\* the font texture, the scissor rectangle, DrawIndexed.
RenderDraw ==
    /\ proc = "running"
    /\ pc = "loop"
    /\ idx <= Len(meshes)
    /\ LET bound == BindMesh(pipe, meshes[idx], fr.buffers + 1)
       IN  /\ pipe' = bound
           /\ drawn' = Append(drawn, DrawRecord(bound, meshes[idx], released[render_view]))
    /\ fr' = [ fr EXCEPT !.buffers = @ + 1, !.log = Append(@, "draw") ]
    /\ idx' = idx + 1
    /\ UNCHANGED << texVars, proc, snap, locks, viewVars, pc, clipped, meshes, backupVars, resizeVars, queueVars, msgVars >>

\* One turn of the draw loop with CreateBuffer failing: expect! panics, the
\* panic unwinds out of render_meshes and present and drops their guards.
RenderDrawPanic ==
    /\ proc = "running"
    /\ pc = "loop"
    /\ idx <= Len(meshes)
    /\ pc' = "panicked"
    /\ locks' = DropGuards("render")
    /\ UNCHANGED << texVars, proc, pipe, snap, viewVars, fr, clipped, meshes, idx, drawn, backupVars, resizeVars, queueVars, msgVars >>

\* render_meshes: self.backup.restore(ctx) after the loop.
RenderRestore ==
    /\ proc = "running"
    /\ pc = "loop"
    /\ idx > Len(meshes)
    /\ pipe' = RestorePipe(snap, pipe)
    /\ snap' = RestoreSnapshot(snap)
    /\ fr' = [ fr EXCEPT !.restored = TRUE, !.log = Append(@, "restore") ]
    /\ pc' = "exit"
    /\ UNCHANGED << texVars, proc, locks, viewVars, clipped, meshes, idx, drawn, backupVars, resizeVars, queueVars, msgVars >>

\* render_meshes and present return: view_lock's guard, then ctx_lock's, drop.
PresentReturn ==
    /\ proc = "running"
    /\ pc = "exit"
    /\ locks' = DropGuards("render")
    /\ pc' = "returned"
    /\ UNCHANGED << texVars, proc, pipe, snap, viewVars, fr, clipped, meshes, idx, drawn, backupVars, resizeVars, queueVars, msgVars >>

\* The host goes on after present and leaves the context in a state of its own.
HostFrameOf(pipes) ==
    /\ proc = "running"
    /\ pc = "returned"
    /\ pipe' \in pipes
    /\ fr' = [ fr EXCEPT !.frames = @ + 1 ]
    /\ pc' = "idle"
    /\ UNCHANGED << texVars, proc, snap, locks, viewVars, clipped, meshes, idx, drawn, backupVars, resizeVars, queueVars, msgVars >>

HostFrame == HostFrameOf(RenderHostPipes)

\* resize_buffers is called: self.render_view.lock() is awaited.
ResizeCall ==
    /\ proc = "running"
    /\ rpc = "idle"
    /\ rs.calls < MaxResizes
    /\ rs' = [ rs EXCEPT !.log = <<>>, !.result = "none", !.returned = "none",
                         !.new_view = 0, !.calls = @ + 1 ]
    /\ rpc' = "lock"
    /\ UNCHANGED << texVars, proc, pipe, snap, locks, viewVars, renderVars, backupVars, queueVars, msgVars >>

\* let view_lock = &mut *self.render_view.lock(); drop_in_place(view_lock):
\* the stored view is released; the slot still holds its pointer.
ResizeRelease ==
    /\ proc = "running"
    /\ rpc = "lock"
    /\ locks.render_view = Free
    /\ locks' = [ locks EXCEPT !.render_view = "resize" ]
    /\ released' = [ released EXCEPT ![render_view] = @ + 1 ]
    /\ rs' = [ rs EXCEPT !.log = Append(@, "release") ]
    /\ rpc' = "original"
    /\ UNCHANGED << texVars, proc, pipe, snap, render_view, renderVars, backupVars, queueVars, msgVars >>

\* let result = original();
ResizeOriginal ==
    /\ proc = "running"
    /\ rpc = "original"
    /\ \E hr \in {"S_OK", "E_FAIL"} :
          rs' = [ rs EXCEPT !.log = Append(@, "original"), !.result = hr ]
    /\ rpc' = "rebuild"
    /\ UNCHANGED << texVars, proc, pipe, snap, locks, viewVars, renderVars, backupVars, queueVars, msgVars >>

\* GetBuffer(0), GetDevice, CreateRenderTargetView all succeed.
ResizeRebuild ==
    /\ proc = "running"
    /\ rpc = "rebuild"
    /\ released' = Append(released, 0)
    /\ rs' = [ rs EXCEPT !.log = Append(@, "create"), !.new_view = Len(released) + 1 ]
    /\ rpc' = "store"
    /\ UNCHANGED << texVars, proc, pipe, snap, locks, render_view, renderVars, backupVars, queueVars, msgVars >>

\* One of GetBuffer(0), GetDevice, CreateRenderTargetView fails: expect!
\* panics, the panic unwinds out of resize_buffers and drops view_lock's guard.
ResizeRebuildPanic ==
    /\ proc = "running"
    /\ rpc = "rebuild"
    /\ rpc' = "panicked"
    /\ locks' = DropGuards("resize")
    /\ UNCHANGED << texVars, proc, pipe, snap, viewVars, rs, renderVars, backupVars, queueVars, msgVars >>

\* *view_lock = new_view: the assignment drops the value in the slot (the view
\* drop_in_place has released already, so Release is called on it again), then
\* stores the new view.
StoreView(view, rel, r) ==
    [ released    |-> [ rel EXCEPT ![view] = @ + 1 ],
      render_view |-> r.new_view,
      log         |-> r.log \o <<"release", "store">> ]

\* A resize_buffers that returns S_OK whatever the closure returned.
ResizeStoreOk ==
    /\ proc = "running"
    /\ rpc = "store"
    /\ LET st == StoreView(render_view, released, rs)
       IN  /\ released' = st.released
           /\ render_view' = st.render_view
           /\ rs' = [ rs EXCEPT !.log = st.log, !.returned = "S_OK" ]
    /\ locks' = DropGuards("resize")
    /\ rpc' = "returned"
    /\ UNCHANGED << texVars, proc, pipe, snap, renderVars, backupVars, queueVars, msgVars >>

\* *view_lock = new_view; result -- with the second Release going through.
ResizeStore ==
    /\ proc = "running"
    /\ rpc = "store"
    /\ LET st == StoreView(render_view, released, rs)
       IN  /\ released' = st.released
           /\ render_view' = st.render_view
           /\ rs' = [ rs EXCEPT !.log = st.log, !.returned = rs.result ]
    /\ locks' = DropGuards("resize")
    /\ rpc' = "returned"
    /\ UNCHANGED << texVars, proc, pipe, snap, renderVars, backupVars, queueVars, msgVars >>

\* *view_lock = new_view -- with the second Release, a call through a pointer
\* to an object that may be freed, terminating the process.
ResizeStoreAbort ==
    /\ proc = "running"
    /\ rpc = "store"
    /\ released' = StoreView(render_view, released, rs).released
    /\ rs' = [ rs EXCEPT !.log = Append(@, "release") ]
    /\ proc' = "aborted"
    /\ UNCHANGED << texVars, pipe, snap, locks, render_view, rpc, renderVars, backupVars, queueVars, msgVars >>

\* The host goes on after resize_buffers.
HostResized ==
    /\ proc = "running"
    /\ rpc = "returned"
    /\ rpc' = "idle"
    /\ UNCHANGED << texVars, proc, pipe, snap, locks, viewVars, rs, renderVars, backupVars, queueVars, msgVars >>

NextRender ==
    \/ PresentCall \/ PresentLockCtx
    \/ PresentCollect \/ PresentUiBegin \/ PresentUiEnd \/ PresentConvert
    \/ RenderSave \/ RenderShared \/ RenderBind
    \/ RenderDraw \/ RenderDrawPanic \/ RenderRestore
    \/ PresentReturn \/ HostFrame
    \/ ResizeCall \/ ResizeRelease \/ ResizeOriginal
    \/ ResizeRebuild \/ ResizeRebuildPanic
    \/ ResizeStore \/ ResizeStoreAbort \/ HostResized

SpecRender == InitRender /\ [][NextRender]_vars

\* C2: when present has returned, every binding the overlay wrote in its
\* RENDER phase has the value it had when present was called.
C2_PresentLeavesNoTrace ==
    pc = "returned" =>
        \A f \in { "viewports", "blend_state", "raster_state", "render_target",
                   "primitive_topology", "input_layout", "vertex_shader",
                   "pixel_shader", "geometry_shader", "ps_sampler", "vertex_buffer",
                   "index_buffer", "ps_resource", "scissor_rects" } :
            pipe[f] = fr.entry[f]

\* C3: once save has run, restore has run on every path by which control
\* leaves render_meshes, the path of a failed buffer creation included.
C3_RestoreOnEveryExit ==
    (pc \in {"exit", "returned", "panicked"} /\ fr.saved) => fr.restored

\* C4: a resize_buffers call that has returned performed exactly these steps,
\* in this order, each once: release of the held view, the original closure,
\* creation of the new view, its store.
C4_ResizeStepsInOrder ==
    rpc = "returned" => rs.log = <<"release", "original", "create", "store">>

\* C5: no view is ever released twice; when resize_buffers has returned, every
\* view held before is released exactly once, and the stored view is the newly
\* created one, unreleased.
C5_EachViewReleasedOnce ==
    /\ \A v \in 1..Len(released) : released[v] <= 1
    /\ rpc = "returned" =>
          /\ render_view = rs.new_view
          /\ released[render_view] = 0
          /\ \A v \in 1..Len(released) : v # render_view => released[v] = 1

\* C6: no DrawIndexed of present is issued while the bound render-target view
\* is one that resize_buffers has released.
C6_NoDrawOnReleasedView ==
    \A i \in 1..Len(drawn) : drawn[i].view_releases = 0

\* ------------------------------------------- SpecInput: the event queue
\* The most wnd_proc calls and collect_input calls.
MaxMsgs == 3
MaxCollects == 3

\* The window messages of SpecInput: a mouse move to (960, 540), a left
\* button press, the character 'a', a backspace character (no event), the
\* keys C and V, and a message process does not handle.
InputMsgs ==
    { Message("WM_MOUSEMOVE", <<0, 0>>, <<540, 960>>),
      Message("WM_LBUTTONDOWN", <<0, 1>>, <<10, 20>>),
      Message("WM_CHAR", <<0, 97>>, <<0, 0>>),
      Message("WM_CHAR", <<0, 8>>, <<0, 0>>),
      Message("WM_KEYDOWN", <<0, 67>>, <<0, 0>>),
      Message("WM_KEYDOWN", <<0, 86>>, <<0, 0>>),
      Message("WM_SIZE", <<0, 0>>, <<600, 800>>) }

InputEnvs ==
    { Env(FALSE, FALSE, Clipboard("text", <<104, 105>>)),
      Env(TRUE, FALSE, Clipboard("text", <<104, 105>>)),
      Env(TRUE, FALSE, Clipboard("unavailable", <<>>)) }

InitInput ==
    /\ InitApp
    /\ IdleBackup
    /\ pc = "off"
    /\ clipped = <<>>
    /\ pipe = HostPipe(Null, 0, 0)

\* wnd_proc is called with a message, at most `most` times; a call that
\* takes no lock has returned at once, the others wait for the queue's lock.
\* msg keeps the last call's message.
WndProcCallOf(calls, most) ==
    /\ proc = "running"
    /\ mpc = "idle"
    /\ ih.msgs < most
    /\ \E call \in calls :
          /\ msg' = call
          /\ mpc' = IF process(call.m, call.env).locked THEN "lock" ELSE "idle"
    /\ ih' = [ ih EXCEPT !.msgs = @ + 1, !.before = msg.m ]
    /\ UNCHANGED << texVars, proc, pipe, snap, locks, viewVars, renderVars, resizeVars,
                    backupVars, queueVars, cpc >>

InputCalls == { [ m |-> m, env |-> env ] : m \in InputMsgs, env \in InputEnvs }

WndProcCall == WndProcCallOf(InputCalls, MaxMsgs)

\* process: self.events.lock()
ProcessLock ==
    /\ proc = "running"
    /\ mpc = "lock"
    /\ locks.events = Free
    /\ locks' = [ locks EXCEPT !.events = "msg" ]
    /\ mpc' = "push"
    /\ UNCHANGED << texVars, proc, pipe, snap, viewVars, renderVars, resizeVars,
                    backupVars, queueVars, msg, cpc, ih >>

\* A process that returns with the queue's guard kept.
ProcessPushHolding ==
    /\ proc = "running"
    /\ mpc = "push"
    /\ ~process(msg.m, msg.env).fault
    /\ events' = PushEvents(events, process(msg.m, msg.env).push)
    /\ mpc' = "idle"
    /\ UNCHANGED << texVars, proc, pipe, snap, locks, viewVars, renderVars, resizeVars,
                    backupVars, input, msg, cpc, ih >>

\* process: the push under the lock, the guard's drop, the return.
ProcessPush ==
    /\ proc = "running"
    /\ mpc = "push"
    /\ ~process(msg.m, msg.env).fault
    /\ LET pushed == process(msg.m, msg.env).push
       IN  /\ events' = PushEvents(events, pushed)
           /\ ih' = [ ih EXCEPT !.appended = @ \o pushed,
                                !.last = IF pushed = <<>> THEN @ ELSE "process",
                                !.streak = IF pushed = <<>> THEN @ ELSE 0,
                                !.clipboard_open = @ \/ process(msg.m, msg.env).left_open ]
    /\ locks' = [ locks EXCEPT !.events = Free ]
    /\ mpc' = "idle"
    /\ UNCHANGED << texVars, proc, pipe, snap, viewVars, renderVars, resizeVars,
                    backupVars, input, msg, cpc >>

\* process: the read of the clipboard faults under the queue's lock; the
\* access violation ends the process.
ProcessFault ==
    /\ proc = "running"
    /\ mpc = "push"
    /\ process(msg.m, msg.env).fault
    /\ proc' = "aborted"
    /\ UNCHANGED << texVars, pipe, snap, locks, viewVars, renderVars, resizeVars,
                    backupVars, queueVars, msgVars >>

\* collect_input: self.events.lock()
CollectLock ==
    /\ proc = "running"
    /\ cpc = "idle"
    /\ ih.collects < MaxCollects
    /\ locks.events = Free
    /\ locks' = [ locks EXCEPT !.events = "render" ]
    /\ cpc' = "take"
    /\ UNCHANGED << texVars, proc, pipe, snap, viewVars, renderVars, resizeVars,
                    backupVars, queueVars, mpc, msg, ih >>

\* collect_input: std::mem::take under the lock, the guard's drop.
CollectTake ==
    /\ proc = "running"
    /\ cpc = "take"
    /\ input' = collect_input(events).returned
    /\ events' = collect_input(events).queue
    /\ ih' = [ ih EXCEPT !.delivered = @ \o input',
                         !.prev = events,
                         !.last = "collect",
                         !.streak = @ + 1,
                         !.batches = IF input' = <<>> THEN @ ELSE @ + 1,
                         !.collects = @ + 1 ]
    /\ locks' = [ locks EXCEPT !.events = Free ]
    /\ cpc' = "idle"
    /\ UNCHANGED << texVars, proc, pipe, snap, viewVars, renderVars, resizeVars,
                    backupVars, mpc, msg >>

NextInput == WndProcCall \/ ProcessLock \/ ProcessPush \/ CollectLock \/ CollectTake

SpecInput == InitInput /\ [][NextInput]_vars

\* C7: when the last operation on the queue was a collect_input, it returned
\* all the events that were queued and left the queue empty; a second
\* collect_input with no event pushed since the first returned no events.
C7_CollectDrains ==
    ih.last = "collect" =>
        /\ input = ih.prev
        /\ events = <<>>
        /\ ih.streak >= 2 => input = <<>>

\* C7's case: events were collected, and a second collect_input followed
\* with nothing pushed in between.
C7_Witness ==
    /\ ih.last = "collect"
    /\ ih.streak = 2
    /\ Len(ih.delivered) >= 2
    /\ input = <<>>

\* C8: under every interleaving of process and collect_input, the events
\* collected so far followed by the events still queued are exactly the events
\* process appended, in the order it appended them: none lost, none delivered
\* twice, none reordered.
C8_ExactlyOnceInOrder ==
    ih.delivered \o events = ih.appended

\* C8's case: events were delivered in two collections, with process calls
\* before, between and after them, and one is still queued.
C8_Witness ==
    /\ ih.batches >= 2
    /\ events # <<>>
    /\ Len(ih.appended) >= 3

\* ------------------------------------------------- SpecMesh: convert_meshes
\* The most draws in a tessellated list, and the most indices of a draw.
MaxDraws == 2
MaxIndices == 6

\* The tessellated draws convert_meshes is applied to: every index count up
\* to MaxIndices, of the font texture or a user texture.
MeshDraws ==
    { UiDraw(n, TexEgui, <<0, 0, 8000, 6000>>) : n \in 0..MaxIndices }
        \cup { UiDraw(n, TexUser(1), <<106, 104, 4000, 3006>>) : n \in 0..MaxIndices }

InitMesh ==
    /\ InitApp
    /\ IdleBackup
    /\ pc = "mesh_input"
    /\ clipped \in SeqsUpTo(MeshDraws, MaxDraws)
    /\ pipe = HostPipe(Null, 0, 0)

\* let meshes = convert_meshes(ctx_lock.tessellate(shapes));
MeshConvert ==
    /\ pc = "mesh_input"
    /\ meshes' = convert_meshes(clipped)
    /\ pc' = "mesh_done"
    /\ UNCHANGED << texVars, proc, pipe, snap, locks, viewVars, fr, clipped, idx, drawn,
                    backupVars, resizeVars, queueVars, msgVars >>

NextMesh == MeshConvert

SpecMesh == InitMesh /\ [][NextMesh]_vars

\* A draw that is not degenerate: its index count is not zero and is a
\* multiple of three.
NonDegenerate(m) == Len(m.indices) # 0 /\ Len(m.indices) % 3 = 0

\* C9: convert_meshes excludes every draw whose index count is zero or not a
\* multiple of three: every GpuMesh it returns has a non-empty index list of a
\* length that is a multiple of three.
C9_DegenerateExcluded ==
    pc = "mesh_done" => \A i \in 1..Len(meshes) : NonDegenerate(meshes[i])

\* C10: convert_meshes retains every draw whose index count is non-zero and a
\* multiple of three, in the list's order, with its positions, uvs, indices,
\* texture id and clip rectangle carried over.
C10_NonDegenerateRetained ==
    pc = "mesh_done" =>
        LET want == SelectSeq(clipped, NonDegenerate)
            got  == SelectSeq(meshes, NonDegenerate)
        IN  /\ Len(got) = Len(want)
            /\ \A i \in 1..Len(want) :
                  /\ got[i].indices = want[i].indices
                  /\ got[i].tex_id = want[i].texture_id
                  /\ got[i].rect = want[i].rect
                  /\ Len(got[i].vertices) = Len(want[i].vertices)
                  /\ \A j \in 1..Len(want[i].vertices) :
                        /\ got[i].vertices[j].pos = want[i].vertices[j].pos
                        /\ got[i].vertices[j].uv = want[i].vertices[j].uv

\* ------------------------------------- SpecDraw: render_meshes on its own
\* The most meshes render_meshes is handed.
MaxDrawMeshes == 2

\* Vertices at a given pixel position (fixed-point).
PosVertex(pos) == [ pos |-> pos, uv |-> <<pos[1] \div 8, pos[2] \div 6>>, color |-> <<255, 128, 0, 255>> ]

\* Triangles: one through the screen's corners and centre, one inside it.
Triangles ==
    { << PosVertex(<<0, 0>>), PosVertex(<<8000, 6000>>), PosVertex(<<4000, 3000>>) >>,
      << PosVertex(<<2000, 1500>>), PosVertex(<<6000, 4500>>), PosVertex(<<4000, 0>>) >> }

\* A quad of two triangles over the left half of the screen.
Quad ==
    [ rect       |-> <<0, 0, 8000, 6000>>,
      vertices   |-> << PosVertex(<<0, 0>>), PosVertex(<<4000, 0>>),
                        PosVertex(<<4000, 6000>>), PosVertex(<<0, 6000>>) >>,
      indices    |-> <<0, 1, 2, 0, 2, 3>>,
      texture_id |-> TexEgui ]

\* The draws whose GpuMesh render_meshes can be handed: a triangle, of the
\* font texture or of a user texture, clipped to the screen or to the
\* rectangle (10.6, 10.4) - (400.0, 300.6); and the quad.
DrawMeshes ==
    { [ rect |-> r, vertices |-> t, indices |-> <<0, 1, 2>>, texture_id |-> tex ] :
        r \in { <<0, 0, 8000, 6000>>, <<106, 104, 4000, 3006>> },
        t \in Triangles,
        tex \in { TexEgui, TexUser(1), TexUser(2) } }
      \cup { Quad }

InitDraw ==
    /\ InitApp
    /\ IdleBackup
    /\ pc = "render_call"
    /\ clipped \in SeqsUpTo(DrawMeshes, MaxDrawMeshes)
    /\ pipe \in RenderHostPipes

\* render_meshes is called with the GpuMesh of each draw, as
\* GpuMesh::from builds it.
RenderMeshesCall ==
    /\ proc = "running"
    /\ pc = "render_call"
    /\ meshes' = [i \in 1..Len(clipped) |-> GpuMeshFrom(clipped[i])]
    /\ fr' = [ fr EXCEPT !.entry = pipe ]
    /\ pc' = "save"
    /\ UNCHANGED << texVars, proc, pipe, snap, locks, viewVars, clipped, idx, drawn,
                    backupVars, resizeVars, queueVars, msgVars >>

NextDraw ==
    \/ RenderMeshesCall
    \/ RenderSave \/ RenderShared \/ RenderBind
    \/ RenderDraw \/ RenderDrawPanic \/ RenderRestore
    \/ PresentReturn

SpecDraw == InitDraw /\ [][NextDraw]_vars

\* render_meshes has passed its normalize_meshes call.
Normalized == pc \in { "lock_view", "loop", "exit", "returned", "panicked" }

\* Half the screen's extent on axis a, in fixed-point units.
ScreenHalf(a) == (ScreenSize[a] * FixedPoint) \div 2

\* C11: after normalize_meshes every vertex position (px, py) has become
\* ((px - w/2)/(w/2), -(py - h/2)/(h/2)) (in 1/1000): the centre maps to
\* (0, 0), (0, 0) to (-1, 1), (w, h) to (1, -1), every vertex inside the
\* screen lands in [-1, 1] on both axes, and the indices, texture id, clip
\* rectangle, uvs and colours of every mesh are as they were handed in.
C11_NormalizedPositions ==
    Normalized =>
        /\ Len(meshes) = Len(clipped)
        /\ \A i \in 1..Len(meshes) :
              LET before == GpuMeshFrom(clipped[i])
              IN  /\ meshes[i].indices = before.indices
                  /\ meshes[i].tex_id = before.tex_id
                  /\ meshes[i].rect = before.rect
                  /\ Len(meshes[i].vertices) = Len(before.vertices)
                  /\ \A j \in 1..Len(before.vertices) :
                        LET v == meshes[i].vertices[j]
                            b == before.vertices[j]
                        IN  /\ v.pos[1] * ScreenHalf(1) = (b.pos[1] - ScreenHalf(1)) * 1000
                            /\ v.pos[2] * ScreenHalf(2) = -((b.pos[2] - ScreenHalf(2)) * 1000)
                            /\ v.pos[1] \in -1000..1000
                            /\ v.pos[2] \in -1000..1000
                            /\ b.pos = <<4000, 3000>> => v.pos = <<0, 0>>
                            /\ b.pos = <<0, 0>> => v.pos = <<-1000, 1000>>
                            /\ b.pos = <<8000, 6000>> => v.pos = <<1000, -1000>>
                            /\ v.uv = b.uv
                            /\ v.color = b.color

\* C11's case: a mesh with vertices at the screen's corners and centre has
\* been normalized.
C11_Witness ==
    /\ Normalized
    /\ Len(meshes) = 2
    /\ \E i \in 1..Len(meshes) :
          /\ clipped[i].vertices[1].pos = <<0, 0>>
          /\ clipped[i].vertices[2].pos = <<8000, 6000>>
          /\ meshes[i].vertices[2].pos = <<1000, -1000>>

\* A fixed-point coordinate rounded to the nearest integer pixel.
RoundPixel(x) == (x + FixedPoint \div 2) \div FixedPoint

\* C12: the scissor rectangle of every draw is the mesh's clip rectangle as
\* handed in (in pixels, before normalization), each edge rounded to the
\* nearest integer pixel.
C12_ScissorRoundedToNearest ==
    \A i \in 1..Len(drawn) :
        drawn[i].scissor = << << RoundPixel(clipped[i].rect[1]), RoundPixel(clipped[i].rect[2]),
                                 RoundPixel(clipped[i].rect[3]), RoundPixel(clipped[i].rect[4]) >> >>

\* The texture manager's shader resource view for a texture id.
ResourceOf(tex) == IF tex = TexEgui THEN FontResource ELSE Obj("user_srv", tex[2])

\* C13: at every DrawIndexed the pixel-stage resource at slot 0 is the one of
\* the mesh's texture id: the font atlas for the font identifier, else the
\* texture manager's resource for that id.
C13_DrawBindsMeshTexture ==
    \A i \in 1..Len(drawn) : drawn[i].ps_resource = ResourceOf(drawn[i].tex_id)

\* ------------------------------------------- SpecTexture: resolve_delta
\* The most resolve_delta calls.
MaxDeltas == 3

TexIds == { TexEgui, TexUser(1) }

\* A 2 x 2 image of either kind, and 1 x 1 patches.
FullImage(kind) == ImageData(kind, 2, 2, << <<kind, 1>>, <<kind, 2>>, <<kind, 3>>, <<kind, 4>> >>)
PatchImage(kind) == ImageData(kind, 1, 1, << <<"patch", 1>> >>)

\* What a delta can set for an id: a full image, or a patch at (1, 0) or (0, 1).
ImageDeltas ==
    { ImageDelta(<<>>, FullImage("Alpha")), ImageDelta(<<>>, FullImage("Color")),
      ImageDelta(<<1, 0>>, PatchImage("Alpha")), ImageDelta(<<0, 1>>, PatchImage("Alpha")),
      ImageDelta(<<1, 0>>, PatchImage("Color")) }

\* The deltas of SpecTexture: at most one id freed, at most one id set.
Deltas ==
    { TexturesDelta(free, set) :
        free \in { <<>> } \cup { <<id>> : id \in TexIds },
        set \in { NoTextures } \cup
                { [ k \in {id} |-> dl ] : id \in TexIds, dl \in ImageDeltas } }

\* The RowPitch Map can report for a texture, in elements: rows packed, or
\* rows padded.
Pitches(img) == { img.width, img.width + 1 }

InitTexture ==
    /\ InitApp
    /\ IdleBackup
    /\ pc = "off"
    /\ clipped = <<>>
    /\ pipe = HostPipe(Null, 0, 0)

otherVars == << proc, pipe, snap, viewVars, renderVars, resizeVars, backupVars,
               queueVars, msgVars >>

\* resolve_delta is called: let lock = &mut *self.allocated();
ResolveCall ==
    /\ proc = "running"
    /\ tpc = "idle"
    /\ tx.calls < MaxDeltas
    /\ locks.allocated = Free
    /\ locks' = [ locks EXCEPT !.allocated = "render" ]
    /\ \E delta \in Deltas :
          tx' = [ tx EXCEPT !.delta = delta, !.todo = DOMAIN delta.set,
                            !.before = allocated, !.gpu_before = gpu,
                            !.calls = @ + 1 ]
    /\ tpc' = "free"
    /\ UNCHANGED << otherVars, allocated, gpu >>

\* for free in delta.free { drop(lock.remove(&free)); }
ResolveFree ==
    /\ tpc = "free"
    /\ allocated' = FreeTextures(allocated, gpu, tx.delta.free).allocated
    /\ gpu' = FreeTextures(allocated, gpu, tx.delta.free).gpu
    /\ tx' = [ tx EXCEPT !.patches = [ k \in (DOMAIN @) \cap (DOMAIN allocated') |-> @[k] ] ]
    /\ tpc' = "set"
    /\ UNCHANGED << otherVars, locks >>

\* The set entry takes the update branch: it has a position and the id has
\* an entry.
TakesUpdate(id) == tx.delta.set[id].pos # <<>> /\ id \in DOMAIN allocated

\* One set entry, update branch, Map succeeding and the kinds matching.  When
\* the copy overruns, this is the outcome in which it does not fault.
ResolveSetUpdate ==
    /\ tpc = "set"
    /\ \E id \in tx.todo :
          /\ TakesUpdate(id)
          /\ SameKind(allocated[id].image, tx.delta.set[id].image)
          /\ \E pitch \in Pitches(allocated[id].image) :
                /\ gpu' = update(allocated[id], tx.delta.set[id].pos,
                                 tx.delta.set[id].image, gpu, pitch)
                /\ tx' = [ tx EXCEPT !.todo = @ \ {id},
                                     !.overrun = @ \/ Overrun(allocated[id].image, pitch),
                                     !.patches = MapInsert(@, id, Append(@[id], tx.delta.set[id])) ]
    /\ UNCHANGED << otherVars, locks, allocated, tpc >>

\* One set entry, update branch, the overrunning copy faulting: the process
\* is terminated.
ResolveSetUpdateFault ==
    /\ tpc = "set"
    /\ \E id \in tx.todo :
          /\ TakesUpdate(id)
          /\ SameKind(allocated[id].image, tx.delta.set[id].image)
          /\ \E pitch \in Pitches(allocated[id].image) : Overrun(allocated[id].image, pitch)
          /\ gpu' = [ gpu EXCEPT ![allocated[id].texture].mapped = TRUE ]
    /\ proc' = "aborted"
    /\ tpc' = "aborted"
    /\ UNCHANGED << pipe, snap, viewVars, renderVars, resizeVars, backupVars,
                    queueVars, msgVars, locks, allocated, tx >>

\* One set entry, update branch, panicking: Map fails (unwrap), or the kinds
\* differ (unreachable!).  The match comes after Map(WRITE_DISCARD) and
\* before Unmap: the texture is left mapped, and what it held is undefined
\* from the Map on (kept, or lost).  The panic unwinds out of resolve_delta
\* and drops the guard.
ResolveSetUpdatePanic ==
    /\ tpc = "set"
    /\ \E id \in tx.todo :
          /\ TakesUpdate(id)
          /\ \/ UNCHANGED gpu
             \/ /\ ~SameKind(allocated[id].image, tx.delta.set[id].image)
                /\ \E content \in { gpu[allocated[id].texture].content,
                                     [ n \in DOMAIN gpu[allocated[id].texture].content |-> Garbage ] } :
                      gpu' = [ gpu EXCEPT ![allocated[id].texture].mapped = TRUE,
                                          ![allocated[id].texture].content = content ]
    /\ locks' = [ locks EXCEPT !.allocated = Free ]
    /\ tpc' = "panicked"
    /\ UNCHANGED << otherVars, allocated, tx >>

\* One set entry, the other branch: allocate_texture, lock.insert(id, tex);
\* the value insert returns (the entry replaced) is dropped.
ResolveSetAllocate ==
    /\ tpc = "set"
    /\ \E id \in tx.todo :
          /\ ~TakesUpdate(id)
          /\ LET new == allocate_texture(tx.delta.set[id].image, gpu)
             IN  /\ allocated' = MapInsert(allocated, id, new.tex)
                 /\ gpu' = IF id \in DOMAIN allocated
                           THEN DropTexture(new.gpu, allocated[id])
                           ELSE new.gpu
          /\ tx' = [ tx EXCEPT !.todo = @ \ {id}, !.patches = MapInsert(@, id, <<>>) ]
    /\ UNCHANGED << otherVars, locks, tpc >>

\* One set entry, the other branch, panicking: CreateTexture2D fails, or
\* CreateShaderResourceView fails and the new texture is dropped in unwinding.
ResolveSetAllocatePanic ==
    /\ tpc = "set"
    /\ \E id \in tx.todo :
          /\ ~TakesUpdate(id)
          /\ \/ UNCHANGED gpu
             \/ LET g1 == create_texture(tx.delta.set[id].image, gpu)
                IN  gpu' = Release(g1, Len(g1))
    /\ locks' = [ locks EXCEPT !.allocated = Free ]
    /\ tpc' = "panicked"
    /\ UNCHANGED << otherVars, allocated, tx >>

\* resolve_delta returns: the guard drops.
ResolveReturn ==
    /\ tpc = "set"
    /\ tx.todo = {}
    /\ locks' = [ locks EXCEPT !.allocated = Free ]
    /\ tpc' = "returned"
    /\ UNCHANGED << otherVars, allocated, gpu, tx >>

\* The caller goes on.
ResolveDone ==
    /\ tpc = "returned"
    /\ tpc' = "idle"
    /\ UNCHANGED << otherVars, locks, allocated, gpu, tx >>

NextTexture ==
    \/ ResolveCall \/ ResolveFree
    \/ ResolveSetUpdate \/ ResolveSetUpdateFault \/ ResolveSetUpdatePanic
    \/ ResolveSetAllocate \/ ResolveSetAllocatePanic
    \/ ResolveReturn \/ ResolveDone

SpecTexture == InitTexture /\ [][NextTexture]_vars

\* The ids the call's delta frees, and the ids it sets.
FreedIds == { tx.delta.free[i] : i \in 1..Len(tx.delta.free) }
SetIds == DOMAIN tx.delta.set

\* The entry of id and its two GPU objects are what they were when the call
\* began.
EntryUntouched(id) ==
    /\ id \in DOMAIN allocated
    /\ allocated[id] = tx.before[id]
    /\ gpu[allocated[id].texture] = tx.gpu_before[allocated[id].texture]
    /\ gpu[allocated[id].resource] = tx.gpu_before[allocated[id].resource]

\* C14: after resolve_delta every id of the free list that is not in the set
\* list is absent from the map; an id in neither list keeps its entry and
\* objects unchanged; and a delta that only frees ids that are not allocated
\* returns normally with the map and the GPU objects as they were.
C14_FreedIdsAbsent ==
    /\ tpc = "returned" =>
          /\ \A id \in FreedIds \ SetIds : id \notin DOMAIN allocated
          /\ \A id \in (DOMAIN tx.before) \ (FreedIds \cup SetIds) : EntryUntouched(id)
    /\ (tpc \in {"set", "returned", "panicked", "aborted"}
            /\ SetIds = {} /\ FreedIds \cap DOMAIN tx.before = {}) =>
          /\ tpc \in {"set", "returned"}
          /\ allocated = tx.before
          /\ gpu = tx.gpu_before

\* C14's case: with two ids allocated, a delta freeing one of them (and
\* setting nothing) has been resolved.
C14_Witness ==
    /\ tpc = "returned"
    /\ DOMAIN tx.before = TexIds
    /\ tx.delta.free = << TexUser(1) >>
    /\ SetIds = {}
    /\ DOMAIN allocated = { TexEgui }

\* C15: after resolve_delta, an id that had an entry and was set without a
\* position has one entry whose texture and view were created by this call
\* from the full image; the texture and view of its previous entry have been
\* released exactly once each; entries of ids in neither list are unchanged.
C15_FullSetReplaces ==
    tpc = "returned" =>
        \A id \in SetIds :
            (tx.delta.set[id].pos = <<>> /\ id \in DOMAIN tx.before) =>
                /\ id \in DOMAIN allocated
                /\ allocated[id].texture > Len(tx.gpu_before)
                /\ allocated[id].resource > Len(tx.gpu_before)
                /\ allocated[id].image = tx.delta.set[id].image
                /\ gpu[allocated[id].texture].type = "texture"
                /\ gpu[allocated[id].texture].content = tx.delta.set[id].image.pixels
                /\ gpu[allocated[id].texture].format = get_image_format(tx.delta.set[id].image)
                /\ gpu[allocated[id].texture].releases = 0
                /\ gpu[allocated[id].resource].type = "view"
                /\ gpu[allocated[id].resource].of = allocated[id].texture
                /\ gpu[allocated[id].resource].releases = 0
                /\ tx.gpu_before[tx.before[id].texture].releases = 0
                /\ gpu[tx.before[id].texture].releases = 1
                /\ gpu[tx.before[id].resource].releases = 1
                /\ \A other \in (DOMAIN tx.before) \ (FreedIds \cup SetIds) : EntryUntouched(other)

\* C15's case: with two ids allocated, one of them has been set to a new
\* full image of the other kind.
C15_Witness ==
    /\ tpc = "returned"
    /\ DOMAIN tx.before = TexIds
    /\ tx.delta.free = <<>>
    /\ SetIds = { TexUser(1) }
    /\ tx.delta.set[TexUser(1)].pos = <<>>
    /\ tx.before[TexUser(1)].image.kind # tx.delta.set[TexUser(1)].image.kind
    /\ allocated[TexUser(1)].texture > Len(tx.gpu_before)

\* C16: a set entry with a position for an id that had no entry makes
\* resolve_delta fail (it does not return) and creates no entry for the id.
C16_PatchWithoutEntryFails ==
    tpc \in {"returned", "panicked", "aborted"} =>
        \A id \in SetIds :
            (tx.delta.set[id].pos # <<>> /\ id \notin DOMAIN tx.before) =>
                /\ tpc # "returned"
                /\ id \notin DOMAIN allocated

\* The texels of a texture of width `width` with the patch `new` written at
\* pos.
Patched(content, width, pos, new) ==
    [ n \in 1..Len(content) |->
        LET cx == (n - 1) % width
            cy == (n - 1) \div width
        IN  IF /\ cx \in pos[1]..(pos[1] + new.width - 1)
               /\ cy \in pos[2]..(pos[2] + new.height - 1)
            THEN new.pixels[(cy - pos[2]) * new.width + (cx - pos[1]) + 1]
            ELSE content[n] ]

\* C17: after resolve_delta, an id that had an entry (and was not freed) and
\* was set with a position keeps the same texture and view objects; nothing
\* was allocated; the set of allocated ids is unchanged; and the texture's
\* texels are what they were with the patch written at its position.
C17_PatchWritesInPlace ==
    tpc = "returned" =>
        \A id \in SetIds \ FreedIds :
            (tx.delta.set[id].pos # <<>> /\ id \in DOMAIN tx.before) =>
                /\ id \in DOMAIN allocated
                /\ allocated[id].texture = tx.before[id].texture
                /\ allocated[id].resource = tx.before[id].resource
                /\ Len(gpu) = Len(tx.gpu_before)
                /\ DOMAIN allocated = (DOMAIN tx.before) \ FreedIds
                /\ gpu[allocated[id].texture].content =
                       Patched(tx.gpu_before[allocated[id].texture].content,
                               tx.before[id].image.width,
                               tx.delta.set[id].pos, tx.delta.set[id].image)

\* ------------------------------- SpecFrame: present and the other threads
\* The messages, GUI output and host state of SpecFrame: a mouse move and a
\* message process does not handle; no draw, an empty draw or a triangle of a
\* user texture; a delta that sets that texture, or none.
FrameMsgs ==
    { Message("WM_MOUSEMOVE", <<0, 0>>, <<540, 960>>),
      Message("WM_SIZE", <<0, 0>>, <<600, 800>>) }

FrameEnvs == { Env(FALSE, FALSE, Clipboard("unavailable", <<>>)) }

FrameDraws ==
    { <<>>,
      << UiDraw(0, TexUser(1), <<0, 0, 8000, 6000>>) >>,
      << UiDraw(3, TexUser(1), <<0, 0, 8000, 6000>>) >> }

FrameDeltas ==
    { NoDelta,
      TexturesDelta(<<>>, [ k \in { TexUser(1) } |-> ImageDelta(<<>>, FullImage("Color")) ]) }

FramePipes == { HostPipe(Obj("host", 0), 1, 1) }

InitFrame ==
    /\ InitApp
    /\ IdleBackup
    /\ pc = "idle"
    /\ clipped = <<>>
    /\ pipe \in FramePipes

FrameUiEnd == PresentUiEndOf(FrameDeltas)

FrameConvert == PresentConvertOf(FrameDraws)

FrameHost == HostFrameOf(FramePipes)

FrameWndProc ==
    WndProcCallOf({ [ m |-> m, env |-> env ] : m \in FrameMsgs, env \in FrameEnvs }, MaxMsgs)

\* Other code calls state() and holds the guard it returns.
UserStateLock ==
    /\ locks.state = Free
    /\ locks' = [ locks EXCEPT !.state = "user" ]
    /\ UNCHANGED << texVars, proc, pipe, snap, viewVars, renderVars, resizeVars,
                    backupVars, queueVars, msgVars >>

\* That guard drops.
UserStateUnlock ==
    /\ locks.state = "user"
    /\ locks' = [ locks EXCEPT !.state = Free ]
    /\ UNCHANGED << texVars, proc, pipe, snap, viewVars, renderVars, resizeVars,
                    backupVars, queueVars, msgVars >>

NextFrame ==
    \/ PresentCall \/ PresentLockCtx
    \/ PresentCollect \/ PresentUiBegin \/ FrameUiEnd \/ FrameConvert
    \/ RenderSave \/ RenderShared \/ RenderBind
    \/ RenderDraw \/ RenderDrawPanic \/ RenderRestore
    \/ PresentReturn \/ FrameHost
    \/ FrameWndProc \/ ProcessLock \/ ProcessPush
    \/ UserStateLock \/ UserStateUnlock

SpecFrame == InitFrame /\ [][NextFrame]_vars

\* The steps of the RENDER phase, as present logs them.
RenderSteps == { "convert", "save", "set", "bind", "draw", "restore" }

\* The steps of a present call that has returned after n draws.
FrameSteps(n) ==
    << "collect", "ui_begin", "ui_end", "convert", "save", "set", "bind" >>
        \o [ i \in 1..n |-> "draw" ] \o << "restore" >>

\* C18: in a present call the input is collected before the UI callback
\* starts, and every step of RENDER (convert, save, state setting, draws,
\* restore) comes after the UI callback has returned; the callback gets
\* exactly the events that were queued at the collection, and events pushed
\* after it stay queued for a later frame (nothing lost, nothing twice).
C18_PhasesInOrder ==
    /\ \A i \in 1..Len(fr.log) :
          /\ fr.log[i] = "ui_begin" => \E j \in 1..(i - 1) : fr.log[j] = "collect"
          /\ fr.log[i] \in RenderSteps => \E j \in 1..(i - 1) : fr.log[j] = "ui_end"
    /\ pc = "returned" => fr.log = FrameSteps(Len(drawn))
    /\ fr.ui_calls > 0 => fr.ui_input = ih.prev
    /\ ih.delivered \o events = ih.appended

\* C18's case: the second present call has returned; it handed events to the
\* callback, drew, and an event pushed after its collection is still queued.
C18_Witness ==
    /\ pc = "returned"
    /\ fr.frames = 1
    /\ fr.ui_input # <<>>
    /\ events # <<>>
    /\ Len(drawn) >= 1

\* C19: when a draw of a frame is issued, that frame's texture delta has been
\* applied to the allocator's map: every id it sets has an entry, every id it
\* frees (and does not set) has none.
C19_DeltaAppliedBeforeDraw ==
    Len(drawn) >= 1 =>
        /\ \A id \in DOMAIN fr.delta.set : id \in DOMAIN allocated
        /\ \A i \in 1..Len(fr.delta.free) :
              fr.delta.free[i] \notin DOMAIN fr.delta.set => fr.delta.free[i] \notin DOMAIN allocated

\* C20: the UI callback is entered exactly once in a present call, holding
\* the user-state lock; present holds that lock only while the callback
\* runs, and not when it returns.
C20_UiCallbackOnceUnderLock ==
    /\ pc = "ui" => (locks.state = "render" /\ fr.ui_calls = 1)
    /\ pc # "ui" => locks.state # "render"
    /\ pc \in { "lock_ctx", "layout", "run" } => fr.ui_calls = 0
    /\ pc \in { "convert", "save", "shared", "lock_view", "loop", "exit", "returned", "panicked" }
          => fr.ui_calls = 1

\* C20's case: the second present call has returned after one callback, and
\* other code holds the state guard again.
C20_Witness ==
    /\ pc = "returned"
    /\ fr.frames = 1
    /\ fr.ui_calls = 1
    /\ locks.state = "user"

\* C21: no exclusive lock (event queue, render-target handle, GUI context,
\* texture map) is held by the rendering code when a draw call is issued.
C21_NoLockHeldAtDraw ==
    (pc = "loop" /\ Len(drawn) >= 1) => \A l \in DOMAIN locks : locks[l] # "render"

\* C26: present draws all of a frame's meshes or none: when creating the
\* buffers of a mesh fails, no earlier mesh of the frame has been drawn.
C26_DrawAllOrNothing ==
    /\ pc = "panicked" => Len(drawn) = 0
    /\ pc \in { "exit", "returned" } => Len(drawn) = Len(meshes)

\* C30: a save captures the viewports and the scissor rectangles the host has
\* bound, with their true counts, whatever counts an earlier save left.
C30_SaveCapturesRasterArrays ==
    bk.phase = "saved" =>
        /\ snap.viewports = bk.atSave.viewports
        /\ snap.scissor_rects = bk.atSave.scissor_rects

\* --------------------------------- SpecProcess: one message, one event
\* The most wnd_proc calls.
MaxProcessCalls == 1

PointerMsgNames ==
    { "WM_MOUSEMOVE",
      "WM_LBUTTONDOWN", "WM_LBUTTONDBLCLK", "WM_LBUTTONUP",
      "WM_RBUTTONDOWN", "WM_RBUTTONDBLCLK", "WM_RBUTTONUP",
      "WM_MBUTTONDOWN", "WM_MBUTTONDBLCLK", "WM_MBUTTONUP" }

KeyDownNames == { "WM_KEYDOWN", "WM_SYSKEYDOWN" }
KeyUpNames == { "WM_KEYUP", "WM_SYSKEYUP" }

\* Pointer messages at (960, 540) and at (-20, -1), with the left button or
\* with Control and Shift in the key flags.
PointerMsgs ==
    { Message(u, w, l) : u \in PointerMsgNames,
                         w \in { <<0, 1>>, <<0, 12>> },
                         l \in { <<540, 960>>, <<65535, 65516>> } }

\* Wheel messages of one notch up, one notch down and no motion, with and
\* without the Control flag.
WheelMsgs ==
    { Message(u, w, <<0, 0>>) :
        u \in { "WM_MOUSEWHEEL", "WM_MOUSEHWHEEL" },
        w \in { <<120, 0>>, <<65416, 0>>, <<120, 8>>, <<65416, 8>>, <<0, 8>> } }

\* Key messages for C, X, V, A, Space, Enter, 0 and for VK_SHIFT (no egui key).
KeyMsgs ==
    { Message(u, <<0, k>>, <<0, 0>>) :
        u \in KeyDownNames \cup KeyUpNames,
        k \in { 67, 88, 86, 65, 32, 13, 48, 16 } }

\* The clipboards a paste cannot read.
FailingClipboards ==
    { Clipboard("unavailable", <<>>), Clipboard("invalid_utf8", <<>>) }
        \cup { NoTextClipboard(r) : r \in { "fault", "text", "invalid_utf8" } }

QuietEnv == Env(FALSE, FALSE, Clipboard("text", <<104, 105>>))

\* The wnd_proc calls of SpecProcess: each message with the keyboard state
\* and the clipboard it depends on.
ProcessCalls ==
    { [ m |-> m, env |-> QuietEnv ] :
        m \in PointerMsgs \cup WheelMsgs
                \cup { Message("WM_CHAR", <<0, 97>>, <<0, 0>>),
                       Message("WM_CHAR", <<0, 32>>, <<0, 0>>),
                       Message("WM_CHAR", <<0, 8>>, <<0, 0>>),
                       Message("WM_SIZE", <<0, 0>>, <<600, 800>>) } }
      \cup { [ m |-> m, env |-> Env(c, FALSE, Clipboard("text", <<104, 105>>)) ] :
                m \in KeyMsgs, c \in BOOLEAN }
      \cup { [ m |-> Message(u, <<0, 86>>, <<0, 0>>), env |-> Env(TRUE, FALSE, clip) ] :
                u \in KeyDownNames, clip \in FailingClipboards }

InitProcess == InitInput

ProcessCall == WndProcCallOf(ProcessCalls, MaxProcessCalls)

NextProcess == ProcessCall \/ ProcessLock \/ ProcessPush \/ ProcessFault

SpecProcess == InitProcess /\ [][NextProcess]_vars

\* The step in which a process call that took the queue's lock returns.
ProcessReturns == mpc = "push" /\ mpc' = "idle"

\* A key-down message for C, X or V while Control is held.
IsShortcut(call) ==
    /\ call.m.umsg \in KeyDownNames
    /\ call.m.wparam \in { <<0, 67>>, <<0, 88>>, <<0, 86>> }
    /\ call.env.ctrl

\* The events of queue' that queue did not hold.
NewEvents == SubSeq(events', Len(events) + 1, Len(events'))

\* C22: a key-down for C, X or V with Control held appends the shortcut's
\* event (Copy, Cut, the clipboard's text as Text) and no Key event.
C22_ShortcutsReplaceKey ==
    [][ (ProcessReturns /\ IsShortcut(msg)) =>
          /\ \A i \in 1..Len(NewEvents) : NewEvents[i][1] # "Key"
          /\ msg.m.wparam = <<0, 67>> => events' = Append(events, << "Copy" >>)
          /\ msg.m.wparam = <<0, 88>> => events' = Append(events, << "Cut" >>)
          /\ (msg.m.wparam = <<0, 86>> /\ msg.env.clipboard.state = "text")
                => events' = Append(events, << "Text", msg.env.clipboard.text >>) ]_vars

\* C22's case: a Ctrl+X key-down has been processed and the queue holds Cut.
C22_Witness ==
    /\ mpc = "idle"
    /\ msg.m = Message("WM_KEYDOWN", <<0, 88>>, <<0, 0>>)
    /\ msg.env.ctrl
    /\ events = << << "Cut" >> >>

\* A 16-bit word read as a signed number.
SignedWord(w) == ((w + 32768) % 65536) - 32768

\* The variant, button and pressed flag a pointer message stands for.
PointerVariant(umsg) ==
    CASE umsg = "WM_MOUSEMOVE" -> << "PointerMoved" >>
      [] umsg \in { "WM_LBUTTONDOWN", "WM_LBUTTONDBLCLK" } -> << "PointerButton", "Primary", TRUE >>
      [] umsg = "WM_LBUTTONUP" -> << "PointerButton", "Primary", FALSE >>
      [] umsg \in { "WM_RBUTTONDOWN", "WM_RBUTTONDBLCLK" } -> << "PointerButton", "Secondary", TRUE >>
      [] umsg = "WM_RBUTTONUP" -> << "PointerButton", "Secondary", FALSE >>
      [] umsg \in { "WM_MBUTTONDOWN", "WM_MBUTTONDBLCLK" } -> << "PointerButton", "Middle", TRUE >>
      [] OTHER -> << "PointerButton", "Middle", FALSE >>

\* The pointer part of C23: one event of the message's variant, at the
\* position of lparam's signed words.
PointerEventMatches ==
    [][ (ProcessReturns /\ msg.m.umsg \in PointerMsgNames) =>
          /\ Len(NewEvents) = 1
          /\ events' = events \o NewEvents
          /\ LET e == NewEvents[1]
                 v == PointerVariant(msg.m.umsg)
             IN  /\ e[1] = v[1]
                 /\ e[2] = << SignedWord(msg.m.lparam[2]), SignedWord(msg.m.lparam[1]) >>
                 /\ Len(v) = 3 => (e[3] = v[2] /\ e[4] = v[3]) ]_vars

\* C23: every pointer message appends exactly one event of the matching
\* variant at the position of lparam's signed low (x) and high (y) words, and
\* every key-down or key-up for a mapped key that is not a copy, cut or paste
\* shortcut appends exactly one Key event with that key and pressed flag.
C23_OneEventPerMessage ==
    [][ ProcessReturns =>
          /\ msg.m.umsg \in PointerMsgNames =>
                /\ Len(NewEvents) = 1
                /\ NewEvents[1][1] = PointerVariant(msg.m.umsg)[1]
                /\ NewEvents[1][2] = << SignedWord(msg.m.lparam[2]), SignedWord(msg.m.lparam[1]) >>
          /\ (/\ msg.m.umsg \in KeyDownNames \cup KeyUpNames
              /\ get_key(msg.m.wparam) # NoKey
              /\ ~IsShortcut(msg)) =>
                /\ Len(NewEvents) = 1
                /\ events' = events \o NewEvents
                /\ NewEvents[1][1] = "Key"
                /\ NewEvents[1][2] = get_key(msg.m.wparam)
                /\ NewEvents[1][3] = (msg.m.umsg \in KeyDownNames) ]_vars

\* C24: a wheel message appends exactly one event: without the Control flag a
\* Scroll whose one non-zero axis (y for the vertical wheel, x for the
\* horizontal one) is the signed high word of wparam times 10 / WHEEL_DELTA;
\* with it a Zoom, above 1 for a positive delta and below 1 otherwise.
C24_WheelScrollsOrZooms ==
    [][ (ProcessReturns /\ msg.m.umsg \in { "WM_MOUSEWHEEL", "WM_MOUSEHWHEEL" }) =>
          /\ Len(NewEvents) = 1
          /\ events' = events \o NewEvents
          /\ LET e == NewEvents[1]
                 d == SignedWord(msg.m.wparam[1])
                 ctrl == (msg.m.wparam[2] \div 8) % 2 = 1
                 vertical == msg.m.umsg = "WM_MOUSEWHEEL"
             IN  /\ ~ctrl =>
                       /\ e[1] = "Scroll"
                       /\ LET axis == IF vertical THEN e[3] ELSE e[2]
                              other == IF vertical THEN e[2] ELSE e[3]
                          IN  /\ axis[2] > 0
                              /\ axis[1] * WHEEL_DELTA = d * 10 * axis[2]
                              /\ other[1] = 0
                 /\ ctrl =>
                       /\ e[1] = "Zoom"
                       /\ e[2][2] > 0
                       /\ d > 0 => e[2][1] > e[2][2]
                       /\ d <= 0 => e[2][1] < e[2][2] ]_vars

\* C24's case: one notch down on the vertical wheel has been processed and
\* the queue holds a Scroll of -10 on y.
C24_Witness ==
    /\ mpc = "idle"
    /\ msg.m = Message("WM_MOUSEWHEEL", <<65416, 0>>, <<0, 0>>)
    /\ events = << << "Scroll", <<0, 1>>, <<-1200, 120>> >> >>

\* C25: when the clipboard cannot be read on a paste (it cannot be opened, it
\* holds no text, its text is not UTF-8), process appends no event and
\* returns normally.
C25_PasteFailureIsSilent ==
    [][ (/\ mpc = "push"
         /\ msg.m.umsg \in KeyDownNames
         /\ msg.m.wparam = <<0, 86>>
         /\ msg.env.ctrl
         /\ msg.env.clipboard.state \in { "unavailable", "no_text", "invalid_utf8" }) =>
          /\ events' = events
          /\ proc' = "running" ]_vars

\* ------------------- SpecResize: resize_buffers beside the message thread
\* The render thread calls resize_buffers while the window procedure takes
\* messages on its own thread.
InitResize == InitInput

NextResize ==
    \/ ResizeCall \/ ResizeRelease \/ ResizeOriginal
    \/ ResizeRebuild \/ ResizeRebuildPanic
    \/ ResizeStore \/ ResizeStoreAbort \/ HostResized
    \/ FrameWndProc \/ ProcessLock \/ ProcessPush

SpecResize == InitResize /\ [][NextResize]_vars

\* How often a step occurs in a log.
Occurrences(log, step) == Cardinality({ i \in 1..Len(log) : log[i] = step })

\* C27: resize_buffers invokes the original closure exactly once per call; a
\* call that returns returns the HRESULT the closure returned, success or
\* failure, and has stored a view created after the closure ran.
C27_ResizeReturnsOriginalResult ==
    /\ rpc \in { "lock", "original" } => Occurrences(rs.log, "original") = 0
    /\ rpc \in { "rebuild", "store", "returned", "panicked" } => Occurrences(rs.log, "original") = 1
    /\ rpc = "returned" =>
          /\ rs.result \in { "S_OK", "E_FAIL" }
          /\ rs.returned = rs.result
          /\ render_view = rs.new_view
          /\ \E i, j \in 1..Len(rs.log) : i < j /\ rs.log[i] = "original" /\ rs.log[j] = "create"

\* C27's case: a resize_buffers call whose closure failed has returned
\* E_FAIL, with a new view stored.
C27_Witness ==
    /\ rpc = "returned"
    /\ rs.result = "E_FAIL"
    /\ rs.returned = "E_FAIL"
    /\ render_view = rs.new_view
    /\ render_view > 1

\* The bindings the draw loop makes for each mesh.
PerDrawFields ==
    { "vertex_buffer", "vb_stride", "vb_offset", "index_buffer", "index_format",
      "index_offset", "ps_resource", "scissor_rects" }

\* The steps of a render_meshes call with n draws, with or without the
\* restore.
RenderLog(n, restored) ==
    << "save", "set", "bind" >> \o [ i \in 1..n |-> "draw" ]
        \o (IF restored THEN << "restore" >> ELSE <<>>)

\* C28: in render_meshes the save precedes every state-setting call; the
\* shared state is bound once, before the first draw; a draw binds nothing
\* but its vertex buffer, index buffer, texture and scissor rectangle; the
\* restore follows the last draw, and nothing is set after it.
C28_SaveSetDrawRestore ==
    /\ [](/\ fr.log = SubSeq(RenderLog(Len(drawn), fr.restored), 1, Len(fr.log))
          /\ pc = "loop" => fr.log = RenderLog(Len(drawn), FALSE)
          /\ pc \in { "exit", "returned" } => fr.log = RenderLog(Len(meshes), TRUE))
    /\ [][ /\ (pipe' # pipe) => (fr.saved /\ ~fr.restored)
           /\ (Len(drawn') = Len(drawn) + 1) =>
                 \A f \in (DOMAIN pipe) \ PerDrawFields : pipe'[f] = pipe[f] ]_vars

\* C28's case: a render_meshes call with two draws has restored and returned.
C28_Witness ==
    /\ pc = "returned"
    /\ Len(drawn) = 2
    /\ fr.log = << "save", "set", "bind", "draw", "draw", "restore" >>

\* C29: render_meshes issues one DrawIndexed per mesh, in the list's order,
\* with the mesh's index count, and with a vertex and an index buffer created
\* for that mesh and bound for no other draw.
C29_OneDrawPerMesh ==
    /\ Len(drawn) <= Len(meshes)
    /\ pc = "loop" => Len(drawn) = idx - 1
    /\ pc \in { "exit", "returned" } => Len(drawn) = Len(meshes)
    /\ \A i \in 1..Len(drawn) :
          /\ drawn[i].index_count = Len(meshes[i].indices)
          /\ drawn[i].tex_id = meshes[i].tex_id
          /\ \E k \in 1..fr.buffers :
                /\ drawn[i].vertex_buffer = Obj("mesh_vb", k)
                /\ drawn[i].index_buffer = Obj("mesh_ib", k)
          /\ \A j \in 1..Len(drawn) :
                j # i => /\ drawn[j].vertex_buffer # drawn[i].vertex_buffer
                         /\ drawn[j].index_buffer # drawn[i].index_buffer

\* C29's case: render_meshes has returned from a triangle and the quad, drawn
\* in this order with 3 and 6 indices.
C29_Witness ==
    /\ pc = "returned"
    /\ Len(meshes) = 2
    /\ Len(drawn) = 2
    /\ drawn[1].index_count = 3
    /\ drawn[2].index_count = 6
    /\ drawn[1].tex_id # drawn[2].tex_id

\* C31: after restore the snapshot holds none of the references its save
\* took: each has been released once, so every object's count of references
\* taken and not released is zero after every save/restore cycle.
C31_RestoreReleasesReferences ==
    bk.phase = "restored" => \A o \in RefObjects : bk.refs[o] = 0

\* The texels of a texture after the patches of `patches` in order.
RECURSIVE ApplyPatches(_, _, _)
ApplyPatches(content, width, patches) ==
    IF patches = <<>> THEN content
    ELSE ApplyPatches(Patched(content, width, Head(patches).pos, Head(patches).image),
                      width, Tail(patches))

\* C32: after any sequence of partial updates of an id, its GPU texture holds
\* the last full image with every patch since applied in order.  Checked for
\* the updates whose copy stays inside the held image (single-channel, rows
\* packed), where one patch alone is written as it should be.
C32_PatchesAccumulate ==
    (tpc = "returned" /\ ~tx.overrun) =>
        \A id \in DOMAIN allocated :
            gpu[allocated[id].texture].content =
                ApplyPatches(allocated[id].image.pixels, allocated[id].image.width,
                             tx.patches[id])

\* C33: a partial update of the other pixel format than the entry's fails
\* (resolve_delta does not return) and leaves the texture as it was, texels
\* and mapping; every entry's texture has the format of the image held for it.
C33_FormatMismatchFails ==
    /\ \A id \in DOMAIN allocated :
          gpu[allocated[id].texture].format = get_image_format(allocated[id].image)
    /\ tpc \in { "returned", "panicked", "aborted" } =>
          \A id \in SetIds \ FreedIds :
              (/\ tx.delta.set[id].pos # <<>>
               /\ id \in DOMAIN tx.before
               /\ tx.before[id].image.kind # tx.delta.set[id].image.kind) =>
                    /\ tpc = "panicked"
                    /\ gpu[allocated[id].texture] = tx.gpu_before[allocated[id].texture]

\* C34: whenever the render-target lock is free, the stored render-target
\* view is one that has not been released, also after a resize_buffers call
\* that failed while making the new view.
C34_StoredViewIsLive ==
    locks.render_view = Free => released[render_view] = 0

\* ------------------------------------------- SpecTyping: a space is typed
\* The messages of a keystroke: the Space key and the A key go down, the
\* characters ' ' and 'a' that TranslateMessage posts for them, the Space
\* key goes up.
TypingCalls ==
    { [ m |-> m, env |-> QuietEnv ] :
        m \in { Message("WM_KEYDOWN", <<0, 32>>, <<0, 0>>),
                Message("WM_CHAR", <<0, 32>>, <<0, 0>>),
                Message("WM_KEYUP", <<0, 32>>, <<0, 0>>),
                Message("WM_KEYDOWN", <<0, 65>>, <<0, 0>>),
                Message("WM_CHAR", <<0, 97>>, <<0, 0>>) } }

InitTyping == InitInput

TypingCall == WndProcCallOf(TypingCalls, MaxMsgs)

NextTyping == TypingCall \/ ProcessLock \/ ProcessPush

SpecTyping == InitTyping /\ [][NextTyping]_vars

\* C37: after the two messages of a typed space, the Space key-down and
\* then WM_CHAR ' ', the queue holds exactly one Text event, of one space.
C37_OneTextPerSpace ==
    (/\ mpc = "idle"
     /\ ih.msgs = 2
     /\ ih.before = Message("WM_KEYDOWN", <<0, 32>>, <<0, 0>>)
     /\ msg.m = Message("WM_CHAR", <<0, 32>>, <<0, 0>>))
        => events = << << "Text", << 32 >> >> >>

\* C38: no call of process returns with the system clipboard open: every
\* OpenClipboard of the paste path that succeeded has had its CloseClipboard.
C38_ClipboardClosedOnReturn ==
    mpc = "idle" => ~ih.clipboard_open

\* --------------------------- SpecTwoPresents: present from two threads
\* A second thread calls present while the render thread does.  Its GUI run
\* gives no mesh, so its draw loop has no turn; its steps are those of
\* present and render_meshes, its place is fr.other, its guards are held
\* as "other".
OtherUnchanged ==
    UNCHANGED << texVars, proc, viewVars, pc, clipped, meshes, idx, drawn,
                 backupVars, resizeVars, msgVars >>

\* present is called: get_device_context, then self.ctx.lock() is awaited.
OtherPresentCall ==
    /\ proc = "running"
    /\ fr.other = "idle"
    /\ fr.other_calls < MaxFrames
    /\ fr' = [ fr EXCEPT !.other = "lock_ctx", !.other_calls = @ + 1 ]
    /\ UNCHANGED << pipe, snap, locks, queueVars >>
    /\ OtherUnchanged

\* let ctx_lock = &mut *self.ctx.lock()
OtherLockCtx ==
    /\ proc = "running"
    /\ fr.other = "lock_ctx"
    /\ locks.ctx = Free
    /\ locks' = [ locks EXCEPT !.ctx = "other" ]
    /\ fr' = [ fr EXCEPT !.other = "layout" ]
    /\ UNCHANGED << pipe, snap, queueVars >>
    /\ OtherUnchanged

\* let input = self.input_collector.collect_input()
OtherCollect ==
    /\ proc = "running"
    /\ fr.other = "layout"
    /\ locks.events = Free
    /\ input' = collect_input(events).returned
    /\ events' = collect_input(events).queue
    /\ fr' = [ fr EXCEPT !.other = "run" ]
    /\ UNCHANGED << pipe, snap, locks >>
    /\ OtherUnchanged

\* ctx_lock.run: the closure takes the state lock and enters the UI callback.
OtherUiBegin ==
    /\ proc = "running"
    /\ fr.other = "run"
    /\ locks.state = Free
    /\ locks' = [ locks EXCEPT !.state = "other" ]
    /\ fr' = [ fr EXCEPT !.other = "ui" ]
    /\ UNCHANGED << pipe, snap, queueVars >>
    /\ OtherUnchanged

\* The UI callback returns, the closure's guard drops; update_font_if_needed,
\* tessellate and convert_meshes give an empty Vec<GpuMesh>.
OtherUiEnd ==
    /\ proc = "running"
    /\ fr.other = "ui"
    /\ locks' = [ locks EXCEPT !.state = Free ]
    /\ fr' = [ fr EXCEPT !.other = "save" ]
    /\ UNCHANGED << pipe, snap, queueVars >>
    /\ OtherUnchanged

\* render_meshes: self.backup.save(ctx), then set_viewports, set_blend_state,
\* set_raster_state.
OtherSave ==
    /\ proc = "running"
    /\ fr.other = "save"
    /\ snap' = SaveState(snap, pipe)
    /\ pipe' = SetSharedRasterState(pipe)
    /\ fr' = [ fr EXCEPT !.other = "lock_view" ]
    /\ UNCHANGED << locks, queueVars >>
    /\ OtherUnchanged

\* render_meshes: self.render_view.lock(), OMSetRenderTargets .. GSSetShader.
OtherBind ==
    /\ proc = "running"
    /\ fr.other = "lock_view"
    /\ locks.render_view = Free
    /\ locks' = [ locks EXCEPT !.render_view = "other" ]
    /\ pipe' = BindShared(pipe, render_view)
    /\ fr' = [ fr EXCEPT !.other = "loop" ]
    /\ UNCHANGED << snap, queueVars >>
    /\ OtherUnchanged

\* render_meshes: the loop over no mesh, then self.backup.restore(ctx).
OtherRestore ==
    /\ proc = "running"
    /\ fr.other = "loop"
    /\ pipe' = RestorePipe(snap, pipe)
    /\ snap' = RestoreSnapshot(snap)
    /\ fr' = [ fr EXCEPT !.other = "exit" ]
    /\ UNCHANGED << locks, queueVars >>
    /\ OtherUnchanged

\* render_meshes and present return: both guards drop.
OtherReturn ==
    /\ proc = "running"
    /\ fr.other = "exit"
    /\ locks' = DropGuards("other")
    /\ fr' = [ fr EXCEPT !.other = "idle" ]
    /\ UNCHANGED << pipe, snap, queueVars >>
    /\ OtherUnchanged

InitTwoPresents == InitFrame

NextTwoPresents ==
    \/ PresentCall \/ PresentLockCtx
    \/ PresentCollect \/ PresentUiBegin \/ FrameUiEnd \/ FrameConvert
    \/ RenderSave \/ RenderShared \/ RenderBind
    \/ RenderDraw \/ RenderDrawPanic \/ RenderRestore
    \/ PresentReturn \/ FrameHost
    \/ OtherPresentCall \/ OtherLockCtx \/ OtherCollect
    \/ OtherUiBegin \/ OtherUiEnd
    \/ OtherSave \/ OtherBind \/ OtherRestore \/ OtherReturn

SpecTwoPresents == InitTwoPresents /\ [][NextTwoPresents]_vars

\* The render thread's present is in the UI callback, or between its save
\* and the end of its restore.
InUiOrRender == pc \in { "ui", "shared", "lock_view", "loop" }

\* The same of the second thread's present.
OtherInUiOrRender == fr.other \in { "ui", "lock_view", "loop" }

\* C36: two present calls made from two threads are serialized: the UI
\* callback and the save/draw/restore sequence of one never overlap with
\* those of the other, and at most one of the calls is past self.ctx.lock().
C36_PresentCallsSerialized ==
    /\ ~(InUiOrRender /\ OtherInUiOrRender)
    /\ ~(/\ pc \notin { "idle", "lock_ctx", "returned", "panicked" }
         /\ fr.other \notin { "idle", "lock_ctx" })

\* C36's case: the render thread's present is in its draw loop and has drawn
\* while the second thread's present, called meanwhile for the second time,
\* waits for the GUI context's lock.
C36_Witness ==
    /\ pc = "loop"
    /\ Len(drawn) >= 1
    /\ fr.other = "lock_ctx"
    /\ fr.other_calls = 2

\* ------------------------------------- SpecLocks: the locks of all threads
\* present and resize_buffers, wnd_proc on the message thread, and other code
\* that holds the guard of state(); the GUI gives one mesh that
\* convert_meshes keeps, the message is a mouse move.
LocksDraws == { << UiDraw(0, TexUser(1), <<0, 0, 8000, 6000>>) >> }

LocksCalls ==
    { [ m |-> Message("WM_MOUSEMOVE", <<0, 0>>, <<540, 960>>),
        env |-> Env(FALSE, FALSE, Clipboard("unavailable", <<>>)) ] }

InitLocks == InitFrame

LocksConvert == PresentConvertOf(LocksDraws)

LocksWndProc == WndProcCallOf(LocksCalls, MaxProcessCalls)

NextLocks ==
    \/ PresentCall \/ PresentLockCtx
    \/ PresentCollect \/ PresentUiBegin \/ PresentUiEnd \/ LocksConvert
    \/ RenderSave \/ RenderShared \/ RenderBind
    \/ RenderDraw \/ RenderDrawPanic \/ RenderRestore
    \/ PresentReturn \/ FrameHost
    \/ ResizeCall \/ ResizeRelease \/ ResizeOriginal
    \/ ResizeRebuild \/ ResizeRebuildPanic
    \/ ResizeStore \/ ResizeStoreAbort \/ HostResized
    \/ LocksWndProc \/ ProcessLock \/ ProcessPush
    \/ UserStateLock \/ UserStateUnlock

SpecLocks == InitLocks /\ [][NextLocks]_vars

\* The steps of a call that wait for no lock: a thread inside a call goes on.
PresentStep ==
    \/ PresentUiEnd \/ LocksConvert \/ RenderSave \/ RenderShared
    \/ RenderDraw \/ RenderDrawPanic \/ RenderRestore \/ PresentReturn

ResizeStep ==
    \/ ResizeOriginal \/ ResizeRebuild \/ ResizeRebuildPanic
    \/ ResizeStore \/ ResizeStoreAbort

\* Threads inside a call go on (weak fairness); a thread that waits for a
\* parking_lot mutex gets it if the mutex is free again and again (strong
\* fairness: the mutex is eventually fair); the holder of the state() guard
\* outside the library drops it.
SpecLocksFair ==
    /\ SpecLocks
    /\ WF_vars(PresentStep)
    /\ WF_vars(ResizeStep)
    /\ WF_vars(ProcessPush)
    /\ WF_vars(UserStateUnlock)
    /\ SF_vars(PresentLockCtx)
    /\ SF_vars(PresentCollect)
    /\ SF_vars(PresentUiBegin)
    /\ SF_vars(RenderBind)
    /\ SF_vars(ResizeRelease)
    /\ SF_vars(ProcessLock)

\* The lock a thread waits for, and the lock's holder if it is taken.
WaitedLock(thread) ==
    CASE thread = "render" /\ pc = "lock_ctx"  -> "ctx"
      [] thread = "render" /\ pc = "layout"    -> "events"
      [] thread = "render" /\ pc = "run"       -> "state"
      [] thread = "render" /\ pc = "lock_view" -> "render_view"
      [] thread = "resize" /\ rpc = "lock"     -> "render_view"
      [] thread = "msg"    /\ mpc = "lock"     -> "events"
      [] OTHER -> "no lock"

WaitsFor(thread) ==
    IF WaitedLock(thread) \in DOMAIN locks /\ locks[WaitedLock(thread)] # Free
    THEN locks[WaitedLock(thread)]
    ELSE "nobody"

\* No thread waits, through one, two or three holders, for itself.
NoWaitCycle ==
    \A t \in { "render", "resize", "msg" } :
        /\ WaitsFor(t) # t
        /\ WaitsFor(WaitsFor(t)) # t
        /\ WaitsFor(WaitsFor(WaitsFor(t))) # t

CallEnded(place) == place \in { "idle", "returned", "panicked" } \/ proc = "aborted"

\* C35: with present, resize_buffers, wnd_proc and holders of the state()
\* guard running together there is no deadlock: no threads wait for each
\* other's locks in a cycle, and every call that has started ends (it
\* returns, or unwinds with its guards dropped, or the process is ended),
\* provided the state() guard held outside the library is dropped.
C35_NoDeadlock ==
    /\ []NoWaitCycle
    /\ (~CallEnded(pc)) ~> CallEnded(pc)
    /\ (~CallEnded(rpc)) ~> CallEnded(rpc)
    /\ (~CallEnded(mpc)) ~> CallEnded(mpc)

\* C35's case: all threads are inside a call; present waits for the view's
\* lock that resize_buffers holds, process holds the queue's lock, and other
\* code holds the state() guard.
C35_Witness ==
    /\ pc = "lock_view"
    /\ locks.render_view = "resize"
    /\ mpc = "push"
    /\ locks.state = "user"

=============================================================================
